---- MODULE Spec2Model ----
(***************************************************************************)
(* Verification model of the static-site build pipeline:                   *)
(*   - the build orchestrator (scripts/build.js: build and its stages,     *)
(*     minifyJSFile, optimizeHTMLFile, validatePerformanceBudget),         *)
(*   - the CSS optimizer (scripts/optimize-css.js: optimizeCSS,            *)
(*     processCSSFile, purgeUnusedCSS, minifyCSS),                         *)
(*   - the image script (scripts/optimize-images.js: main,                 *)
(*     processUnsplashImages, downloadImage, optimizeWithSharp,            *)
(*     optimizeWithoutSharp).                                              *)
(* Text is modelled as a sequence of one-character strings.                *)
(***************************************************************************)
EXTENDS Integers, Sequences, FiniteSets, TLC

VARIABLES
    \* ---- build(): the orchestrator's run ----
    pc,          \* the stage build() is at, or "summary" / "catch" / "exited"
    running,     \* TRUE between the call of a stage and its return
    started,     \* history: the stages called, in call order
    returned,    \* history: the results the stages returned, in return order
    steps,       \* buildResults.steps: the keys set so far
    success,     \* buildResults.success
    totalFiles,  \* buildResults.totalFiles
    totalSize,   \* buildResults.totalSize
    budget,      \* buildResults.budget: <<>> (undefined) or <<value>>
    exitCode,    \* <<>> while running, <<code>> once process.exit was called
    report,      \* <<>>, or <<report>> once generateBuildReport wrote it
    stepFiles,   \* the files lists of buildResults.steps.js and .html
    duration,    \* buildResults.duration: <<>> (undefined) or <<value>>
    styles,      \* the styles directory: status of each entry
    cssRun,      \* <<>>, or <<what the optimize-css.js child process did>>
    dist,        \* the output root on disk
    \* ---- purgeUnusedCSS and minifyCSS applied to inputs ----
    cssRules,    \* input: the rules of the CSS source, [selector, body] each
    markup,      \* input: the attribute of the reference markup, [name, value]
    purged,      \* <<>>, or <<purgeUnusedCSS(css, html)>>
    cssText,     \* input: a CSS source
    minified,    \* the successive results of minifyCSS on cssText
    \* ---- minifyJSFile applied to inputs ----
    jsText,      \* input: the content of a script file
    jsMinified,  \* the successive results of minifyJSFile, each fed the last output
    \* ---- optimizeHTMLFile applied to inputs ----
    htmlDoc,     \* input: the pieces index.html is made of
    criticalFile,\* dist/critical.css: <<>> (missing) or <<content>>
    htmlResult,  \* <<>>, or <<what optimizeHTMLFile returned and wrote>>
    \* ---- optimize-images.js: the run of main() ----
    imgPc,       \* where main() is: "start", "acquire", "optimize", "report", ...
    sharp,       \* whether require.resolve('sharp') succeeds
    source0,     \* images/source as it was before the run
    source,      \* images/source: the content of each entry
    examined,    \* history: the catalog entries the acquisition loop looked at
    fetches,     \* history: the catalog entries a download was started for
    acquired,    \* the results object of processUnsplashImages
    output,      \* images/optimized: what was written for each source entry
    optimization,\* <<>>, or <<what optimizeWithSharp / WithoutSharp did>>
    imgExit,     \* <<>>, or <<code>> once process.exit was called or node died
    \* ---- extractCriticalCSS applied to inputs ----
    cssLines,    \* input: the kinds of the lines of a CSS source
    extracted,   \* <<>>, or <<what extractCriticalCSS collected and returned>>
    \* ---- ensureDirectory called by concurrent callers on one path ----
    dirExists,   \* whether the directory exists
    callerPc,    \* where each caller is: "ready", "access", "mkdir" or "threw"
    callerCalls, \* the calls each caller has made
    callerDone,  \* the calls of each caller that completed
    \* ---- optimize-images.js run again and again on one source directory ----
    imgFirst,    \* <<>> in the first run, then <<images/source before the first run>>
    downloadedEver, \* history: the entries an earlier run downloaded
    failedLast,  \* history: the entries whose fetch failed in the run before
    \* ---- contact-form.js: the contact form in the page ----
    isSubmitting,   \* formState.isSubmitting
    retryCount,     \* formState.retryCount
    submissions,    \* history: one record per run of handleFormSubmit
    submitEvents,   \* history: the submit events dispatched so far
    ignoredSubmits, \* history: the submit events the listener returned from at once
    resetClicks,    \* history: the clicks on the reset button so far
    \* ---- lazy-loading.js: one image handed to initLazyLoading ----
    lazyMode,       \* "none", or "observer" / "fallback": what initLazyLoading set up
    imgLoading,     \* imageState.get(img).loading
    imgAttempts,    \* imageState.get(img).attempts
    imgClasses,     \* img.classList: which of the classes of the config it has
    observed,       \* whether the observer observes the image
    queuedEntries,  \* the entries queued for the image and not yet delivered
    loads,          \* history: one record per run of loadImageWithRetry past its guard
    lazyTriggers,   \* history: the number of entries queued and of scroll events
    \* ---- main.js: initializeApp and cleanupApp ----
    initialized,    \* AppState.initialized
    appCalls,       \* history: one entry per call of initializeApp
    initRuns,       \* history: the calls since the last cleanup that initialized
    cleanups        \* history: the calls of cleanupApp

buildVars == <<pc, running, started, returned, steps, success, totalFiles,
               totalSize, budget, exitCode, report, stepFiles, duration, styles,
               cssRun, dist>>

textVars == <<cssRules, markup, purged, cssText, minified>>

jsVars == <<jsText, jsMinified>>

htmlVars == <<htmlDoc, criticalFile, htmlResult>>

imageVars == <<imgPc, sharp, source0, source, examined, fetches, acquired, output,
               optimization, imgExit>>

criticalVars == <<cssLines, extracted>>

\* The variables of the programs modelled beside the three build scripts' runs.
dirVars == <<dirExists, callerPc, callerCalls, callerDone>>

runVars == <<imgFirst, downloadedEver, failedLast>>

formVars == <<isSubmitting, retryCount, submissions, submitEvents, ignoredSubmits,
              resetClicks>>

lazyVars == <<lazyMode, imgLoading, imgAttempts, imgClasses, observed, queuedEntries,
              loads, lazyTriggers>>

appVars == <<initialized, appCalls, initRuns, cleanups>>

\* The variables of the scripts that run in the page.
pageVars == <<formVars, lazyVars, appVars>>

siteVars == <<criticalVars, dirVars, runVars, pageVars>>

\* What build() itself never touches.
nonBuildVars == <<textVars, jsVars, htmlVars, imageVars, siteVars>>

pipelineVars == <<buildVars, textVars, jsVars, htmlVars, imageVars>>

\* What no script of the page touches.
offPageVars == <<pipelineVars, criticalVars, dirVars, runVars>>

vars == <<buildVars, nonBuildVars>>

NoValue == "none"

(***************************************************************************)
(* Helpers on sequences.                                                   *)
(***************************************************************************)
IsPrefix(s, t) == Len(s) <= Len(t) /\ \A i \in 1..Len(s) : s[i] = t[i]

Range(s) == { s[i] : i \in 1..Len(s) }

RECURSIVE SumSeq(_)
SumSeq(s) == IF s = <<>> THEN 0 ELSE Head(s) + SumSeq(Tail(s))

(***************************************************************************)
(* Configuration of build.js.                                              *)
(***************************************************************************)
BUDGET_HTML == 50 * 1024
BUDGET_CSS == 30 * 1024
BUDGET_JS == 50 * 1024
BUDGET_TOTAL == 500 * 1024

STEPS == << "clean", "optimize-css", "optimize-images", "minify-js",
            "optimize-html", "validate-budget", "generate-report" >>

\* The key of buildResults.steps that build() sets after a stage succeeded.
StepKey(stage) ==
    CASE stage = "clean" -> "clean"
      [] stage = "optimize-css" -> "css"
      [] stage = "optimize-images" -> "images"
      [] stage = "minify-js" -> "js"
      [] stage = "optimize-html" -> "html"
      [] stage = "validate-budget" -> "budget"
      [] OTHER -> NoValue

\* Result.ok / Result.err
ResultOk(v) == [ok |-> TRUE, value |-> v]

\* Mutant of ResultErr: a failed result that carries a value as well.
ResultErr_BothArms(e) == [ok |-> FALSE, value |-> e, error |-> e]

ResultErr(e) == [ok |-> FALSE, error |-> e]

(***************************************************************************)
(* Bounds of the model and the environment's choices.                      *)
(***************************************************************************)
MaxJsFiles == 2

\* Entries the styles directory may hold, in readdir order.
DirNames == << "main.css", "print.css", "notes.txt" >>

endsWithCss(name) == name \in {"main.css", "print.css"}

\* absent: not in the directory; ok: readable, output writable;
\* unreadable: readFile fails; unwritable: writeFile of the output fails.
FileStatus == {"absent", "ok", "unreadable", "unwritable"}

CssOutSizes == {10 * 1024, 40 * 1024}
JsOutSizes == {10 * 1024, 60 * 1024}
HtmlOutSizes == {10 * 1024, 600 * 1024}

RECURSIVE SeqsUpTo(_, _)
SeqsUpTo(S, n) ==
    IF n = 0 THEN { <<>> }
    ELSE LET shorter == SeqsUpTo(S, n - 1)
         IN  shorter \cup { Append(s, x) : s \in shorter, x \in S }

\* buildResults.steps before any files list was attached.
NoFiles == [k \in {} |-> <<>>]

EmptyDist == [exists |-> FALSE, critical |-> "absent", reportFile |-> "absent",
              cssOut |-> <<>>, jsOut |-> <<>>, htmlOut |-> <<>>]

(***************************************************************************)
(* optimize-css.js                                                         *)
(***************************************************************************)
\* processCSSFile: ok iff the input was read and the output written.
processCSSFile(name, status, size) ==
    IF status = "unreadable" THEN ResultErr("read")
    ELSE IF status = "unwritable" THEN ResultErr("write")
    ELSE ResultOk([name |-> name, optimizedSize |-> size])

\* generateCriticalCSS(main.css): ok iff main.css was read and critical.css written.
generateCriticalCSS(dir, criticalWriteOk) ==
    IF dir["main.css"] # "ok" /\ dir["main.css"] # "unwritable" THEN ResultErr("read")
    ELSE IF ~criticalWriteOk THEN ResultErr("write")
    ELSE ResultOk("critical.css")

\* Mutant of cssLoop: the loop gives up at the first file that fails.
RECURSIVE cssLoop_StopAtFailure(_, _, _, _)
cssLoop_StopAtFailure(dir, names, sizes, acc) ==
    IF names = <<>> THEN acc
    ELSE LET name == Head(names)
             result == processCSSFile(name, dir[name], sizes[name])
             next == [attempted |-> Append(acc.attempted, name),
                      results |-> IF result.ok THEN Append(acc.results, result.value)
                                  ELSE acc.results]
         IN  IF result.ok THEN cssLoop_StopAtFailure(dir, Tail(names), sizes, next)
             ELSE next

\* The loop of optimizeCSS over the .css entries of the styles directory:
\* every entry is handed to processCSSFile, the ok values are collected.
RECURSIVE cssLoop(_, _, _, _)
cssLoop(dir, names, sizes, acc) ==
    IF names = <<>> THEN acc
    ELSE LET name == Head(names)
             result == processCSSFile(name, dir[name], sizes[name])
         IN  cssLoop(dir, Tail(names), sizes,
                     [attempted |-> Append(acc.attempted, name),
                      results |-> IF result.ok THEN Append(acc.results, result.value)
                                  ELSE acc.results])

\* Mutant of optimizeCSS: the child exits 1 when no file could be processed.
optimizeCSS_FailWhenNoResult(dir, outDirOk, listOk, sizes, criticalWriteOk) ==
    IF ~outDirOk \/ ~listOk
    THEN [exit |-> 1, attempted |-> <<>>, results |-> <<>>, critical |-> FALSE]
    ELSE LET cssFilePaths ==
                 SelectSeq(DirNames, LAMBDA n : dir[n] # "absent" /\ endsWithCss(n))
             loop == cssLoop(dir, cssFilePaths, sizes,
                             [attempted |-> <<>>, results |-> <<>>])
         IN  [exit |-> IF loop.results = <<>> /\ loop.attempted # <<>> THEN 1 ELSE 0,
              attempted |-> loop.attempted,
              results |-> loop.results,
              critical |-> generateCriticalCSS(dir, criticalWriteOk).ok]

\* optimizeCSS as the child process runCSSOptimization starts: its exit code,
\* the files handed to processCSSFile, the results list and whether
\* critical.css was written.
optimizeCSS(dir, outDirOk, listOk, sizes, criticalWriteOk) ==
    IF ~outDirOk \/ ~listOk
    THEN [exit |-> 1, attempted |-> <<>>, results |-> <<>>, critical |-> FALSE]
    ELSE LET cssFilePaths ==
                 SelectSeq(DirNames, LAMBDA n : dir[n] # "absent" /\ endsWithCss(n))
             loop == cssLoop(dir, cssFilePaths, sizes,
                             [attempted |-> <<>>, results |-> <<>>])
         IN  [exit |-> 0,
              attempted |-> loop.attempted,
              results |-> loop.results,
              critical |-> generateCriticalCSS(dir, criticalWriteOk).ok]

(***************************************************************************)
(* build.js: the stages.                                                   *)
(***************************************************************************)
\* Mutant of cleanDistDirectory: an existing dist is kept as it is.
cleanDistDirectory_KeepOld(d, rmOk, mkdirOk) ==
    IF ~d.exists /\ ~mkdirOk THEN [result |-> ResultErr("mkdir"), dist |-> EmptyDist]
    ELSE [result |-> ResultOk(NoValue), dist |-> [d EXCEPT !.exists = TRUE]]

\* cleanDistDirectory: rm -rf of an existing dist, then ensureDirectory.
cleanDistDirectory(d, rmOk, mkdirOk) ==
    IF d.exists /\ ~rmOk THEN [result |-> ResultErr("rm"), dist |-> d]
    ELSE IF ~mkdirOk THEN [result |-> ResultErr("mkdir"), dist |-> EmptyDist]
    ELSE [result |-> ResultOk(NoValue), dist |-> [EmptyDist EXCEPT !.exists = TRUE]]

\* runCSSOptimization: err iff the script is missing or the child exits non-zero.
runCSSOptimization(scriptOk, run) ==
    IF ~scriptOk THEN ResultErr("access")
    ELSE IF run.exit # 0 THEN ResultErr("execSync")
    ELSE ResultOk("css-optimization")

\* runImageOptimization: err iff the script is missing or the child exits non-zero.
runImageOptimization(scriptOk, childExit) ==
    IF ~scriptOk THEN ResultErr("access")
    ELSE IF childExit # 0 THEN ResultErr("execSync")
    ELSE ResultOk("image-optimization")

\* minifyJavaScript: err iff a directory cannot be made or listed; files whose
\* minifyJSFile failed are left out of the value.
minifyJavaScript(dirsOk, files) ==
    IF ~dirsOk THEN ResultErr("io") ELSE ResultOk([files |-> files])

\* optimizeHTML: never an err result; a file whose optimizeHTMLFile failed is
\* left out of the value.
optimizeHTML(fileOk, size, critical) ==
    ResultOk([files |-> IF fileOk
                        THEN << [size |-> size, inlined |-> critical] >>
                        ELSE <<>>])

\* Mutant of overBudget: a file of exactly the limit is a violation too.
overBudget_AtLimit(sizes, limit, type) ==
    LET over == SelectSeq([i \in 1..Len(sizes) |-> i], LAMBDA i : sizes[i] >= limit)
    IN  [k \in 1..Len(over) |->
            [file |-> << type, over[k] >>, size |-> sizes[over[k]],
             budget |-> limit, type |-> type]]

\* The violations of one category, in file order; the i-th file of the
\* category is named << type, i >>.
overBudget(sizes, limit, type) ==
    LET over == SelectSeq([i \in 1..Len(sizes) |-> i], LAMBDA i : sizes[i] > limit)
    IN  [k \in 1..Len(over) |->
            [file |-> << type, over[k] >>, size |-> sizes[over[k]],
             budget |-> limit, type |-> type]]

\* validatePerformanceBudget over the sizes of dist's html, css and js files.
validatePerformanceBudget(readOk, htmlSizes, cssSizes, jsSizes) ==
    IF ~readOk THEN ResultErr("readdir")
    ELSE LET total == SumSeq(htmlSizes) + SumSeq(cssSizes) + SumSeq(jsSizes)
             violations ==
                 overBudget(htmlSizes, BUDGET_HTML, "HTML")
                 \o overBudget(cssSizes, BUDGET_CSS, "CSS")
                 \o overBudget(jsSizes, BUDGET_JS, "JS")
                 \o (IF total > BUDGET_TOTAL
                     THEN << [file |-> << "TOTAL", 0 >>, size |-> total,
                              budget |-> BUDGET_TOTAL, type |-> "TOTAL"] >>
                     ELSE <<>>)
         IN  ResultOk([totalSize |-> total, violations |-> violations,
                       passed |-> Len(violations) = 0])

\* buildResults.steps[key] = { success: true, files }
withFiles(bStepFiles, key, files) ==
    [k \in DOMAIN bStepFiles \cup {key} |-> IF k = key THEN files ELSE bStepFiles[k]]

\* generateBuildReport: the report object written to dist/build-report.json;
\* stepFiles holds the files lists that are part of buildResults.steps.
generateBuildReport(writeOk, bSteps, bSuccess, bBudget, bFiles, bSize, bStepFiles, bDuration) ==
    IF ~writeOk THEN ResultErr("writeFile")
    ELSE ResultOk([buildDuration |-> bDuration, steps |-> bSteps,
                   stepFiles |-> bStepFiles, performanceBudget |-> bBudget,
                   summary |-> [success |-> bSuccess, totalFiles |-> bFiles,
                                totalSize |-> bSize]])

(***************************************************************************)
(* Text: a string is a sequence of one-character strings.                  *)
(***************************************************************************)
\* \s of a JavaScript regular expression, and what trim() strips.
IsSpace(c) == c \in {" ", "\t", "\n", "\r", "\f"}

\* \w of a JavaScript regular expression.
WordChars == {
    "a", "b", "c", "d", "e", "f", "g", "h", "i", "j", "k", "l", "m",
    "n", "o", "p", "q", "r", "s", "t", "u", "v", "w", "x", "y", "z",
    "A", "B", "C", "D", "E", "F", "G", "H", "I", "J", "K", "L", "M",
    "N", "O", "P", "Q", "R", "S", "T", "U", "V", "W", "X", "Y", "Z",
    "0", "1", "2", "3", "4", "5", "6", "7", "8", "9", "_" }

IsWordChar(c) == c \in WordChars

\* s.startsWith(t) from index i (1-based): t is found in s at i.
MatchesAt(s, i, t) ==
    /\ i >= 1
    /\ i + Len(t) - 1 <= Len(s)
    /\ \A k \in 1..Len(t) : s[i + k - 1] = t[k]

startsWith(s, t) == MatchesAt(s, 1, t)

\* s.includes(t)
includes(s, t) == \E i \in 1..(Len(s) - Len(t) + 1) : MatchesAt(s, i, t)

\* s.trim()
RECURSIVE trimStart(_)
trimStart(s) == IF s # <<>> /\ IsSpace(Head(s)) THEN trimStart(Tail(s)) ELSE s

RECURSIVE trimEnd(_)
trimEnd(s) ==
    IF s # <<>> /\ IsSpace(s[Len(s)]) THEN trimEnd(SubSeq(s, 1, Len(s) - 1)) ELSE s

trim(s) == trimEnd(trimStart(s))

\* s.split(c) for a one-character separator c: the pieces, empty ones included.
RECURSIVE splitChar(_, _, _)
splitChar(s, c, cur) ==
    IF s = <<>> THEN << cur >>
    ELSE IF Head(s) = c THEN << cur >> \o splitChar(Tail(s), c, <<>>)
    ELSE splitChar(Tail(s), c, Append(cur, Head(s)))

\* s.split(/\s+/): a run of white space is one separator.
RECURSIVE splitSpaces(_, _)
splitSpaces(s, cur) ==
    IF s = <<>> THEN << cur >>
    ELSE IF IsSpace(Head(s)) THEN << cur >> \o splitSpaces(trimStart(s), <<>>)
    ELSE splitSpaces(Tail(s), Append(cur, Head(s)))

\* pieces.join(sep)
RECURSIVE join(_, _)
join(pieces, sep) ==
    IF pieces = <<>> THEN <<>>
    ELSE IF Len(pieces) = 1 THEN pieces[1]
    ELSE pieces[1] \o sep \o join(Tail(pieces), sep)

(***************************************************************************)
(* optimize-css.js: purgeUnusedCSS.                                        *)
(***************************************************************************)
Quotes == {"\"", "'"}

\* The index of the first quote of h at or after i (Len(h) + 1 if none).
RECURSIVE nextQuote(_, _)
nextQuote(h, i) ==
    IF i > Len(h) \/ h[i] \in Quotes THEN i ELSE nextQuote(h, i + 1)

\* The capture groups of the global pattern /<name>["']([^"']+)["']/g over h,
\* in match order, scanning on from index i as exec() does from lastIndex.
RECURSIVE execAll(_, _, _)
execAll(h, name, i) ==
    IF i > Len(h) THEN <<>>
    ELSE LET open == i + Len(name)
             close == nextQuote(h, open + 1)
         IN  IF /\ MatchesAt(h, i, name)
                /\ open <= Len(h)
                /\ h[open] \in Quotes
                /\ close > open + 1
                /\ close <= Len(h)
             THEN << SubSeq(h, open + 1, close - 1) >> \o execAll(h, name, close + 1)
             ELSE execAll(h, name, i + 1)

classPattern == <<"c", "l", "a", "s", "s", "=">>

idPattern == <<"i", "d", "=">>

\* usedClasses: every capture of the class pattern, split on white space.
usedClasses(html) ==
    UNION { Range(splitSpaces(v, <<>>)) : v \in Range(execAll(html, classPattern, 1)) }

\* usedIds: every capture of the id pattern, whole.
usedIds(html) == Range(execAll(html, idPattern, 1))

\* The names of the pattern /^(html|body|a|p|h[1-6]|...|nav|main)\b/.
ElementNames == {
    <<"h", "t", "m", "l">>,
    <<"b", "o", "d", "y">>,
    <<"a">>,
    <<"p">>,
    <<"h", "1">>,
    <<"h", "2">>,
    <<"h", "3">>,
    <<"h", "4">>,
    <<"h", "5">>,
    <<"h", "6">>,
    <<"u", "l">>,
    <<"o", "l">>,
    <<"l", "i">>,
    <<"i", "m", "g">>,
    <<"b", "u", "t", "t", "o", "n">>,
    <<"i", "n", "p", "u", "t">>,
    <<"s", "e", "l", "e", "c", "t">>,
    <<"t", "e", "x", "t", "a", "r", "e", "a">>,
    <<"f", "o", "r", "m">>,
    <<"t", "a", "b", "l", "e">>,
    <<"t", "r">>,
    <<"t", "d">>,
    <<"t", "h">>,
    <<"d", "i", "v">>,
    <<"s", "p", "a", "n">>,
    <<"s", "e", "c", "t", "i", "o", "n">>,
    <<"a", "r", "t", "i", "c", "l", "e">>,
    <<"h", "e", "a", "d", "e", "r">>,
    <<"f", "o", "o", "t", "e", "r">>,
    <<"n", "a", "v">>,
    <<"m", "a", "i", "n">> }

\* The element pattern matches: a name at the start, then no word character.
startsWithElement(sel) ==
    \E e \in ElementNames :
        /\ startsWith(sel, e)
        /\ Len(sel) = Len(e) \/ ~IsWordChar(sel[Len(e) + 1])

\* Mutant of shouldKeep: every class selector is kept, used or not.
shouldKeep_AnyClass(selectorTrimmed, classes, ids) ==
    \/ startsWith(selectorTrimmed, << "@" >>)
    \/ startsWith(selectorTrimmed, << ":" >>)
    \/ includes(selectorTrimmed, << ":", ":" >>)
    \/ startsWith(selectorTrimmed, << "." >>)
    \/ \E id \in ids : includes(selectorTrimmed, << "#" >> \o id)
    \/ startsWithElement(selectorTrimmed)

\* shouldKeep of purgeUnusedCSS, for a trimmed selector.
shouldKeep(selectorTrimmed, classes, ids) ==
    \/ startsWith(selectorTrimmed, << "@" >>)
    \/ startsWith(selectorTrimmed, << ":" >>)
    \/ includes(selectorTrimmed, << ":", ":" >>)
    \/ \E cls \in classes : includes(selectorTrimmed, << "." >> \o cls)
    \/ \E id \in ids : includes(selectorTrimmed, << "#" >> \o id)
    \/ startsWithElement(selectorTrimmed)

\* The loop of purgeUnusedCSS over the rules: the rules pushed to purgedRules.
RECURSIVE purgeLoop(_, _, _)
purgeLoop(rules, classes, ids) ==
    IF rules = <<>> THEN <<>>
    ELSE LET rule == Head(rules)
             selector == splitChar(rule, "{", <<>>)[1]
             rest == purgeLoop(Tail(rules), classes, ids)
         IN  IF selector = <<>> THEN rest
             ELSE IF shouldKeep(trim(selector), classes, ids)
                  THEN << rule \o << "}" >> >> \o rest
                  ELSE rest

purgeUnusedCSS(css, html) ==
    LET rules == SelectSeq(splitChar(css, "}", <<>>), LAMBDA rule : trim(rule) # <<>>)
    IN  join(purgeLoop(rules, usedClasses(html), usedIds(html)), << "\n" >>)

(***************************************************************************)
(* optimize-css.js: minifyCSS.                                             *)
(***************************************************************************)
\* The index of the first "*/" of s at or after i (0 if none).
RECURSIVE commentEnd(_, _)
commentEnd(s, i) ==
    IF i + 1 > Len(s) THEN 0
    ELSE IF s[i] = "*" /\ s[i + 1] = "/" THEN i
    ELSE commentEnd(s, i + 1)

\* replace(/\/\*[\s\S]*?\*\//g, ''), scanning on from index i.
RECURSIVE removeComments(_, _)
removeComments(s, i) ==
    IF i > Len(s) THEN <<>>
    ELSE LET end == IF MatchesAt(s, i, << "/", "*" >>) THEN commentEnd(s, i + 2) ELSE 0
         IN  IF end # 0 THEN removeComments(s, end + 2)
             ELSE << s[i] >> \o removeComments(s, i + 1)

\* The first index at or after i that holds no white space.
RECURSIVE skipSpaces(_, _)
skipSpaces(s, i) ==
    IF i <= Len(s) /\ IsSpace(s[i]) THEN skipSpaces(s, i + 1) ELSE i

\* replace(/\s+/g, ' '), from index i on: of every run of white space the first
\* character is kept, as a blank.
collapseSpaces(s, i) ==
    LET kept == SelectSeq([k \in 1..Len(s) |-> k],
                          LAMBDA k : /\ k >= i
                                     /\ IsSpace(s[k]) => (k = i \/ ~IsSpace(s[k - 1])))
    IN  [n \in 1..Len(kept) |-> IF IsSpace(s[kept[n]]) THEN " " ELSE s[kept[n]]]

CssPunctuation == {"{", "}", ":", ";", ",", ">", "+", "~"}

\* replace(/\s*([{}:;,>+~])\s*/g, '$1')
RECURSIVE unspacePunctuation(_, _, _)
unspacePunctuation(s, i, punctuation) ==
    IF i > Len(s) THEN <<>>
    ELSE LET j == skipSpaces(s, i)
         IN  IF j <= Len(s) /\ s[j] \in punctuation
             THEN << s[j] >> \o unspacePunctuation(s, skipSpaces(s, j + 1), punctuation)
             ELSE << s[i] >> \o unspacePunctuation(s, i + 1, punctuation)

\* replace(/;}/g, '}')
RECURSIVE dropTrailingSemicolons(_, _)
dropTrailingSemicolons(s, i) ==
    IF i > Len(s) THEN <<>>
    ELSE IF MatchesAt(s, i, << ";", "}" >>)
         THEN << "}" >> \o dropTrailingSemicolons(s, i + 2)
         ELSE << s[i] >> \o dropTrailingSemicolons(s, i + 1)

\* The first index at or after i that holds a brace (Len(s) + 1 if none).
RECURSIVE nextBrace(_, _)
nextBrace(s, i) ==
    IF i > Len(s) \/ s[i] \in {"{", "}"} THEN i ELSE nextBrace(s, i + 1)

\* replace(/[^{}]+\{\s*\}/g, '')
RECURSIVE removeEmptyRules(_, _)
removeEmptyRules(s, i) ==
    IF i > Len(s) THEN <<>>
    ELSE LET open == nextBrace(s, i)
             close == skipSpaces(s, open + 1)
         IN  IF /\ open > i
                /\ open <= Len(s)
                /\ s[open] = "{"
                /\ close <= Len(s)
                /\ s[close] = "}"
             THEN removeEmptyRules(s, close + 1)
             ELSE << s[i] >> \o removeEmptyRules(s, i + 1)

minifyCSS(css) ==
    LET noComments == removeComments(css, 1)
        collapsed == collapseSpaces(noComments, 1)
        unspaced == unspacePunctuation(collapsed, 1, CssPunctuation)
        noSemicolons == dropTrailingSemicolons(unspaced, 1)
        noEmptyRules == removeEmptyRules(noSemicolons, 1)
    IN  trim(noEmptyRules)

(***************************************************************************)
(* build.js: minifyJSFile.                                                 *)
(***************************************************************************)
\* What '.' of a JavaScript regular expression does not match.
IsLineTerminator(c) == c \in {"\n", "\r"}

\* The first index at or after i that holds a line terminator (Len(s) + 1 if none).
RECURSIVE lineEnd(_, _)
lineEnd(s, i) ==
    IF i > Len(s) \/ IsLineTerminator(s[i]) THEN i ELSE lineEnd(s, i + 1)

\* replace(/\/\/.*/g, ''), scanning on from index i.
RECURSIVE removeLineComments(_, _)
removeLineComments(s, i) ==
    IF i > Len(s) THEN <<>>
    ELSE IF MatchesAt(s, i, << "/", "/" >>)
         THEN removeLineComments(s, lineEnd(s, i + 2))
         ELSE << s[i] >> \o removeLineComments(s, i + 1)

\* Mutant of JsPunctuation: '=' is unspaced too.
JsPunctuation_WithEquals == {"{", "}", "(", ")", ";", ",", ":", "="}

\* The class [{}();,:] of minifyJSFile.
JsPunctuation == {"{", "}", "(", ")", ";", ",", ":"}

\* The text transformation of minifyJSFile: content -> minified.
minifyJS(content) ==
    LET noBlocks == removeComments(content, 1)
        noComments == removeLineComments(noBlocks, 1)
        collapsed == collapseSpaces(noComments, 1)
        unspaced == unspacePunctuation(collapsed, 1, JsPunctuation)
    IN  trim(unspaced)

\* minifyJSFile: err iff the input cannot be read or the output not written.
minifyJSFile(readOk, writeOk, content) ==
    IF ~readOk THEN ResultErr("readFile")
    ELSE IF ~writeOk THEN ResultErr("writeFile")
    ELSE ResultOk([originalSize |-> Len(content),
                   minifiedSize |-> Len(minifyJS(content)),
                   written |-> minifyJS(content)])

(***************************************************************************)
(* build.js: optimizeHTMLFile.                                             *)
(***************************************************************************)
\* The index of the first occurrence of t in s at or after i (0 if none).
indexOf(s, t, i) ==
    LET hits == { k \in i..(Len(s) - Len(t) + 1) : MatchesAt(s, k, t) }
    IN  IF hits = {} THEN 0 ELSE CHOOSE k \in hits : \A m \in hits : k <= m

\* replace(/<!--(?!\[if)[\s\S]*?-->/g, ''), scanning on from index i.
\* The text up to the first match is kept, the match dropped, and the scan
\* goes on behind it.
RECURSIVE removeHTMLComments(_, _)
removeHTMLComments(s, i) ==
    LET end(k) == IF /\ MatchesAt(s, k, << "<", "!", "-", "-" >>)
                     /\ ~MatchesAt(s, k + 4, << "[", "i", "f" >>)
                  THEN indexOf(s, << "-", "-", ">" >>, k + 4)
                  ELSE 0
        starts == { k \in i..Len(s) : end(k) # 0 }
    IN  IF starts = {} THEN SubSeq(s, i, Len(s))
        ELSE LET start == CHOOSE k \in starts : \A m \in starts : k <= m
             IN  SubSeq(s, i, start - 1) \o removeHTMLComments(s, end(start) + 3)

\* replace(/>\s+</g, '><'), from index i on: a character is dropped when it
\* is white space of a run that has '>' right before it and '<' right after.
joinTags(s, i) ==
    LET between(k) == /\ IsSpace(s[k])
                      /\ skipSpaces(s, k) <= Len(s)
                      /\ s[skipSpaces(s, k)] = "<"
                      /\ \E a \in i..(k - 1) :
                            /\ s[a] = ">"
                            /\ \A m \in (a + 1)..(k - 1) : IsSpace(s[m])
        kept == SelectSeq([k \in 1..Len(s) |-> k], LAMBDA k : k >= i /\ ~between(k))
    IN  [n \in 1..Len(kept) |-> s[kept[n]]]

linkOpen ==
    << "<", "l", "i", "n", "k" >>

relStylesheet ==
    << "s", "t", "y", "l", "e", "s", "h", "e", "e", "t" >>

styleOpen ==
    << "<", "s", "t", "y", "l", "e", ">" >>

styleClose ==
    << "<", "/", "s", "t", "y", "l", "e", ">" >>

\* rel=["']stylesheet["'] is found in s at k.
relAt(s, k) ==
    /\ MatchesAt(s, k, << "r", "e", "l", "=" >>)
    /\ k + 4 <= Len(s) /\ s[k + 4] \in Quotes
    /\ MatchesAt(s, k + 5, relStylesheet)
    /\ k + 15 <= Len(s) /\ s[k + 15] \in Quotes

\* /<link[^>]*rel=["']stylesheet["'][^>]*>/ matches s from i: the index of
\* the closing '>' (0 if there is no match from i).
linkMatchEnd(s, i) ==
    LET close == indexOf(s, << ">" >>, i + 5)
    IN  IF /\ MatchesAt(s, i, linkOpen)
           /\ close # 0
           /\ \E k \in (i + 5)..(close - 16) : relAt(s, k)
        THEN close
        ELSE 0

\* The start of the first match of the link pattern at or after i (0 if none).
firstLink(s, i) ==
    LET hits == { k \in i..Len(s) : linkMatchEnd(s, k) # 0 }
    IN  IF hits = {} THEN 0 ELSE CHOOSE k \in hits : \A m \in hits : k <= m

\* Mutant of inlineCritical: a missing critical.css is inlined as an empty one.
inlineCritical_Always(optimized, critical) ==
    LET start == firstLink(optimized, 1)
        css == IF critical = <<>> THEN <<>> ELSE critical[1]
    IN  IF start = 0 THEN optimized
        ELSE SubSeq(optimized, 1, start - 1)
             \o styleOpen \o css \o styleClose
             \o SubSeq(optimized, linkMatchEnd(optimized, start) + 1, Len(optimized))

\* The inner try of optimizeHTMLFile: when critical.css can be read the first
\* stylesheet link is replaced by <style>criticalCSS</style>, else nothing is
\* done. critical is <<>> (the read fails) or <<content>>, content without '$'.
inlineCritical(optimized, critical) ==
    LET start == firstLink(optimized, 1)
    IN  IF critical = <<>> \/ start = 0 THEN optimized
        ELSE SubSeq(optimized, 1, start - 1)
             \o styleOpen \o critical[1] \o styleClose
             \o SubSeq(optimized, linkMatchEnd(optimized, start) + 1, Len(optimized))

\* The text transformation of optimizeHTMLFile: content -> optimized.
optimizeHTMLText(content, critical) ==
    LET noComments == removeHTMLComments(content, 1)
        collapsed == collapseSpaces(noComments, 1)
        joined == joinTags(collapsed, 1)
    IN  trim(inlineCritical(joined, critical))

\* optimizeHTMLFile: err iff the input cannot be read or the output not written.
optimizeHTMLFile(readOk, writeOk, content, critical) ==
    IF ~readOk THEN ResultErr("readFile")
    ELSE IF ~writeOk THEN ResultErr("writeFile")
    ELSE LET optimized == optimizeHTMLText(content, critical)
         IN  ResultOk([originalSize |-> Len(content),
                       optimizedSize |-> Len(optimized),
                       written |-> optimized])

(***************************************************************************)
(* Inputs of purgeUnusedCSS: a CSS source of up to MaxRules rules and a    *)
(* markup with one quoted class or id attribute.                           *)
(***************************************************************************)
MaxRules == 2

MaxValueLen == 3

Selectors == {
    <<".", "x">>,
    <<".", "y">>,
    <<".", "x", "y">>,
    <<"p">>,
    <<"p", ".", "y">>,
    <<"q">>,
    <<"@", "m">>,
    <<":", "r">>,
    <<"q", ":", ":", "b">>,
    <<"#", "x">>,
    <<" ", ".", "x">> }

Bodies == { <<"c">> }

ValueChars == {"x", " ", "'"}

classAttr == <<"c", "l", "a", "s", "s">>

idAttr == <<"i", "d">>

\* Scenario A: ".used{color:red}.unused{color:blue}" and class="used".
ScenarioRules ==
    << [selector |-> <<".", "u", "s", "e", "d">>,
        body |-> <<"c", "o", "l", "o", "r", ":", "r", "e", "d">>],
       [selector |-> <<".", "u", "n", "u", "s", "e", "d">>,
        body |-> <<"c", "o", "l", "o", "r", ":", "b", "l", "u", "e">>] >>

ScenarioMarkup == [name |-> classAttr, value |-> <<"u", "s", "e", "d">>]

ScenarioPurged == <<".", "u", "s", "e", "d", "{", "c", "o", "l", "o", "r", ":", "r", "e", "d", "}">>

RuleInputs ==
    SeqsUpTo([selector : Selectors, body : Bodies], MaxRules) \cup { ScenarioRules }

MarkupInputs ==
    [name : {classAttr, idAttr}, value : SeqsUpTo(ValueChars, MaxValueLen)]
        \cup { ScenarioMarkup }

\* The text of one rule, of a CSS source and of the markup.
ruleText(rule) == rule.selector \o << "{" >> \o rule.body \o << "}" >>

RECURSIVE sourceText(_)
sourceText(rules) ==
    IF rules = <<>> THEN <<>> ELSE ruleText(Head(rules)) \o sourceText(Tail(rules))

markupText(m) ==
    << "<", "p", " " >> \o m.name \o << "=", "\"" >> \o m.value \o << "\"", ">" >>

\* No purge or minification input: the state of the text variables in a build.
TextIdle ==
    /\ cssRules = <<>>
    /\ markup = [name |-> <<>>, value |-> <<>>]
    /\ purged = <<>>
    /\ cssText = <<>>
    /\ minified = <<>>

(***************************************************************************)
(* optimize-images.js                                                      *)
(***************************************************************************)
MaxCatalog == 3

\* The names of CONFIG.UNSPLASH_IMAGES, in order.
UNSPLASH_IMAGES == << "hero-worship", "church-exterior", "sanctuary-interior",
                      "worship-service", "prayer-meeting", "youth-ministry",
                      "children-ministry", "community-service",
                      "education-support", "pastor-portrait",
                      "co-pastor-portrait" >>

\* The catalog entries the model runs over; entry n stands for source/n.jpg.
Catalog == SubSeq(UNSPLASH_IMAGES, 1, MaxCatalog)

\* The entries images/source may hold, in readdir order.
SourceOrder == Catalog \o << "local.png", "notes.txt" >>

SourceNames == Range(SourceOrder)

\* /\.(jpg|jpeg|png)$/i.test(file)
isImageFile(name) == name # "notes.txt"

\* original: a file that was there before the run; unreadable: such a file
\* that cannot be read; fetched: a complete download; empty: created by
\* createWriteStream, nothing written; truncated: part of a download.
Corrupt == {"unreadable", "empty", "truncated"}

\* Mutant of existsSync: no entry is taken to exist.
existsSync_Never(dir, name) == FALSE

\* existsSync(outputPath)
existsSync(dir, name) == dir[name] # "absent"

\* How a download can go: ok (200, body complete), status (not 200),
\* requestError (the request emits 'error'), fileError (the write stream emits
\* 'error' after the response arrived), openError (the write stream emits
\* 'error' before the response callback attached a listener), aborted (200,
\* then the connection is lost while the body is piped).
DownloadOutcomes == {"ok", "status", "requestError", "fileError", "openError",
                     "aborted"}

\* downloadImage: how the promise settles and what is left at outputPath.
\* resolve() is called on the file's 'finish', reject() on a status other than
\* 200 (the created file stays), on the request's 'error' and on the file's
\* 'error' once the response arrived (both unlink the file). An 'error' of the
\* file before that has no listener and ends the process; a response that
\* breaks off has no listener either and never ends the file: the promise
\* stays pending.
downloadImage(outcome) ==
    CASE outcome = "ok" -> [settled |-> "resolved", file |-> "fetched"]
      [] outcome = "status" -> [settled |-> "rejected", file |-> "empty"]
      [] outcome = "requestError" -> [settled |-> "rejected", file |-> "absent"]
      [] outcome = "fileError" -> [settled |-> "rejected", file |-> "absent"]
      [] outcome = "openError" -> [settled |-> "crashed", file |-> "absent"]
      [] OTHER -> [settled |-> "pending", file |-> "truncated"]

\* The source image files, in readdir order.
imageFiles(dir) ==
    SelectSeq(SourceOrder, LAMBDA n : dir[n] # "absent" /\ isImageFile(n))

\* Mutant of sharpLoop: the loop gives up at the first file sharp fails on.
RECURSIVE sharpLoop_StopAtFailure(_, _, _)
sharpLoop_StopAtFailure(dir, files, acc) ==
    IF files = <<>> THEN acc
    ELSE LET file == Head(files)
         IN  IF dir[file] \in Corrupt
             THEN [acc EXCEPT !.failed = @ + 1]
             ELSE sharpLoop_StopAtFailure(dir, Tail(files),
                      [acc EXCEPT !.processed = @ + 1,
                                  !.written = @ \cup {file}])

\* The loop of optimizeWithSharp: a file sharp cannot decode is counted as
\* failed, any other is written in every size and counted as processed.
RECURSIVE sharpLoop(_, _, _)
sharpLoop(dir, files, acc) ==
    IF files = <<>> THEN acc
    ELSE LET file == Head(files)
         IN  sharpLoop(dir, Tail(files),
                 IF dir[file] \in Corrupt
                 THEN [acc EXCEPT !.failed = @ + 1]
                 ELSE [acc EXCEPT !.processed = @ + 1,
                                  !.written = @ \cup {file}])

\* optimizeWithSharp: throws iff the output directory cannot be made or the
\* source directory not listed.
optimizeWithSharp(dir, outDirOk, listOk) ==
    IF ~outDirOk THEN [status |-> "threw", cause |-> "mkdir",
                       processed |-> 0, failed |-> 0, written |-> {}]
    ELSE IF ~listOk THEN [status |-> "threw", cause |-> "readdir",
                          processed |-> 0, failed |-> 0, written |-> {}]
    ELSE sharpLoop(dir, imageFiles(dir),
                   [status |-> "returned", cause |-> "none",
                    processed |-> 0, failed |-> 0, written |-> {}])

\* The loop of optimizeWithoutSharp: copyFile of each file; the first copy
\* that fails is thrown on.
RECURSIVE copyLoop(_, _, _)
copyLoop(dir, files, acc) ==
    IF files = <<>> THEN [acc EXCEPT !.processed = Len(imageFiles(dir))]
    ELSE LET file == Head(files)
         IN  IF dir[file] = "unreadable"
             THEN [acc EXCEPT !.status = "threw", !.cause = "copyFile"]
             ELSE copyLoop(dir, Tail(files), [acc EXCEPT !.written = @ \cup {file}])

\* optimizeWithoutSharp
optimizeWithoutSharp(dir, outDirOk, listOk) ==
    IF ~outDirOk THEN [status |-> "threw", cause |-> "mkdir",
                       processed |-> 0, failed |-> 0, written |-> {}]
    ELSE IF ~listOk THEN [status |-> "threw", cause |-> "readdir",
                          processed |-> 0, failed |-> 0, written |-> {}]
    ELSE copyLoop(dir, imageFiles(dir),
                  [status |-> "returned", cause |-> "none",
                   processed |-> 0, failed |-> 0, written |-> {}])

NoOutput == [n \in SourceNames |-> "absent"]

\* No image run: the state of the image variables outside SpecImages.
ImageIdle ==
    /\ imgPc = "exited"
    /\ sharp = FALSE
    /\ source0 = [n \in SourceNames |-> "absent"]
    /\ source = [n \in SourceNames |-> "absent"]
    /\ examined = <<>>
    /\ fetches = {}
    /\ acquired = [downloaded |-> 0, skipped |-> 0, failed |-> 0]
    /\ output = NoOutput
    /\ optimization = <<>>
    /\ imgExit = <<>>

(***************************************************************************)
(* optimize-css.js: extractCriticalCSS.                                    *)
(***************************************************************************)
\* s.split(c) for a one-character separator c, by the positions of c.
splitOn(s, c) ==
    LET cuts == SelectSeq([k \in 1..Len(s) |-> k], LAMBDA k : s[k] = c)
        from(n) == IF n = 1 THEN 1 ELSE cuts[n - 1] + 1
        to(n) == IF n > Len(cuts) THEN Len(s) ELSE cuts[n] - 1
    IN  [n \in 1..(Len(cuts) + 1) |-> SubSeq(s, from(n), to(n))]

\* (s.match(/c/g) || []).length for a one-character pattern c.
matchCount(s, c) == Cardinality({ k \in 1..Len(s) : s[k] = c })

layerMarker ==
    << "@", "l", "a", "y", "e", "r", " ", "c", "r", "i", "t", "i", "c", "a", "l" >>

\* /@layer\s+critical/.test(s)
layerPattern(s) ==
    \E k \in 1..Len(s) :
        /\ MatchesAt(s, k, << "@", "l", "a", "y", "e", "r" >>)
        /\ skipSpaces(s, k + 6) > k + 6
        /\ MatchesAt(s, skipSpaces(s, k + 6), << "c", "r", "i", "t", "i", "c", "a", "l" >>)

\* criticalSelectors.some(pattern => pattern.test(s)), s the trimmed line.
isCritical(s) ==
    \/ Len(s) >= 2 /\ s[1] = "*" /\ (s[2] = "," \/ IsSpace(s[2]))
    \/ MatchesAt(s, 1, << "h", "t", "m", "l" >>) /\ Len(s) >= 5 /\ IsSpace(s[5])
    \/ MatchesAt(s, 1, << "b", "o", "d", "y" >>) /\ Len(s) >= 5 /\ IsSpace(s[5])
    \/ includes(s, << ".", "h", "e", "a", "d", "e", "r" >>)
    \/ includes(s, << ".", "n", "a", "v" >>)
    \/ includes(s, << ".", "h", "e", "r", "o" >>)
    \/ includes(s, << ".", "b", "t", "n" >>)
    \/ includes(s, << ".", "c", "o", "n", "t", "a", "i", "n", "e", "r" >>)
    \/ layerPattern(s)

\* The loop over the lines from line i on, by the indices of the lines pushed
\* to criticalLines.
RECURSIVE criticalLoop(_, _, _, _)
criticalLoop(lines, i, inCriticalBlock, braceCount) ==
    IF i > Len(lines) THEN <<>>
    ELSE IF includes(lines[i], layerMarker)
    THEN << i >> \o criticalLoop(lines, i + 1, TRUE, braceCount)
    ELSE IF inCriticalBlock
    THEN LET count == braceCount + matchCount(lines[i], "{") - matchCount(lines[i], "}")
         IN  << i >> \o criticalLoop(lines, i + 1, count # 0, count)
    ELSE IF isCritical(trim(lines[i]))
    THEN IF includes(lines[i], << "{" >>)
         THEN << i >> \o criticalLoop(lines, i + 1, TRUE, 1)
         ELSE << i >> \o criticalLoop(lines, i + 1, FALSE, braceCount)
    ELSE criticalLoop(lines, i + 1, FALSE, braceCount)

\* criticalLines, as the indices of the lines of css it holds, in push order.
criticalLines(css) == criticalLoop(splitOn(css, "\n"), 1, FALSE, 0)

extractCriticalCSS(css) ==
    LET lines == splitOn(css, "\n")
        kept == criticalLines(css)
    IN  join([n \in 1..Len(kept) |-> lines[kept[n]]], << "\n" >>)

\* No stylesheet input: the state of these variables outside SpecCritical.
CriticalIdle ==
    /\ cssLines = <<>>
    /\ extracted = <<>>

\* No script input: the state of the script variables outside SpecMinifyJS.
JsIdle ==
    /\ jsText = <<>>
    /\ jsMinified = <<>>

\* No markup input: the state of the markup variables outside SpecHtml.
HtmlIdle ==
    /\ htmlDoc = <<>>
    /\ criticalFile = <<>>
    /\ htmlResult = <<>>

(***************************************************************************)
(* build.js, optimize-css.js, optimize-images.js: ensureDirectory.         *)
(***************************************************************************)
MaxCallers == 3

Callers == 1..MaxCallers

\* Mutant of mkdirRecursive: mkdir without the recursive option, which throws
\* EEXIST when the directory is there.
mkdirRecursive_FailIfExists(exists) == [exists |-> TRUE, threw |-> exists]

\* fs.mkdir(dirPath, { recursive: true }): creates the directory and what is
\* missing above it, and does not throw when the directory is there already.
mkdirRecursive(exists) == [exists |-> TRUE, threw |-> FALSE]

\* No caller of ensureDirectory: the state outside SpecEnsure.
DirIdle ==
    /\ dirExists = FALSE
    /\ callerPc = [p \in Callers |-> "ready"]
    /\ callerCalls = [p \in Callers |-> 0]
    /\ callerDone = [p \in Callers |-> 0]

\* No earlier run of optimize-images.js.
RunsIdle ==
    /\ imgFirst = <<>>
    /\ downloadedEver = {}
    /\ failedLast = {}

\* formState as the module creates it, and no event yet.
FormIdle ==
    /\ isSubmitting = FALSE
    /\ retryCount = 0
    /\ submissions = <<>>
    /\ submitEvents = 0
    /\ ignoredSubmits = 0
    /\ resetClicks = 0

\* initLazyLoading was not called.
LazyIdle ==
    /\ lazyMode = "none"
    /\ imgLoading = FALSE
    /\ imgAttempts = 0
    /\ imgClasses = {}
    /\ observed = FALSE
    /\ queuedEntries = 0
    /\ loads = <<>>
    /\ lazyTriggers = 0

\* AppState as the module creates it, and no call yet.
AppIdle ==
    /\ initialized = FALSE
    /\ appCalls = <<>>
    /\ initRuns = 0
    /\ cleanups = 0

\* No script of the page has run.
PageIdle ==
    /\ FormIdle
    /\ LazyIdle
    /\ AppIdle

\* None of the programs of siteVars runs.
SiteIdle ==
    /\ CriticalIdle
    /\ DirIdle
    /\ RunsIdle
    /\ PageIdle

(***************************************************************************)
(* build.js: build().                                                      *)
(***************************************************************************)
Init ==
    /\ pc = "clean"
    /\ running = FALSE
    /\ started = <<>>
    /\ returned = <<>>
    /\ steps = {}
    /\ success = TRUE
    /\ totalFiles = 0
    /\ totalSize = 0
    /\ budget = <<>>
    /\ exitCode = <<>>
    /\ report = <<>>
    /\ stepFiles = NoFiles
    /\ duration = <<>>
    /\ cssRun = <<>>
    /\ TextIdle
    /\ JsIdle
    /\ HtmlIdle
    /\ ImageIdle
    /\ SiteIdle
    /\ styles \in [Range(DirNames) -> FileStatus]
    \* what an earlier run may have left in the output root
    /\ dist \in { EmptyDist } \cup
                { [EmptyDist EXCEPT !.exists = TRUE, !.critical = c, !.reportFile = r] :
                    c \in {"absent", "stale"}, r \in {"absent", "stale"} }

\* Mutant of NextStage: the image stage is called before the CSS stage.
NextStage_Swapped(stage) ==
    CASE stage = "clean" -> "optimize-images"
      [] stage = "optimize-images" -> "optimize-css"
      [] stage = "optimize-css" -> "minify-js"
      [] stage = "minify-js" -> "optimize-html"
      [] stage = "optimize-html" -> "validate-budget"
      [] stage = "validate-budget" -> "generate-report"
      [] OTHER -> "summary"

\* The stage build() calls after `stage` returned ok.
NextStage(stage) ==
    CASE stage = "clean" -> "optimize-css"
      [] stage = "optimize-css" -> "optimize-images"
      [] stage = "optimize-images" -> "minify-js"
      [] stage = "minify-js" -> "optimize-html"
      [] stage = "optimize-html" -> "validate-budget"
      [] stage = "validate-budget" -> "generate-report"
      [] OTHER -> "summary"

\* Mutant of AfterStage: a failed result is not thrown, build() goes on.
AfterStage_IgnoreFailure(stage, result) ==
    /\ running' = FALSE
    /\ returned' = Append(returned, [stage |-> stage, ok |-> result.ok,
                                     arms |-> DOMAIN result \ {"ok"}])
    /\ pc' = IF stage = "validate-budget" /\ ~result.ok THEN "catch"
             ELSE NextStage(stage)
    /\ steps' = IF StepKey(stage) = NoValue \/ ~result.ok THEN steps
                ELSE steps \cup {StepKey(stage)}

\* build() after `await stage()`: throw on a failed result, else record the
\* step and go on. The history keeps which arms the result had.
AfterStage(stage, result) ==
    /\ running' = FALSE
    /\ returned' = Append(returned, [stage |-> stage, ok |-> result.ok,
                                     arms |-> DOMAIN result \ {"ok"}])
    /\ IF result.ok
       THEN /\ pc' = NextStage(stage)
            /\ steps' = IF StepKey(stage) = NoValue THEN steps
                        ELSE steps \cup {StepKey(stage)}
       ELSE /\ pc' = "catch"
            /\ UNCHANGED steps

\* build() calls the stage it is at.
CallStage ==
    /\ ~running
    /\ pc \in Range(STEPS)
    /\ running' = TRUE
    /\ started' = Append(started, pc)
    /\ UNCHANGED nonBuildVars
    /\ UNCHANGED <<stepFiles, duration>>
    /\ UNCHANGED <<pc, returned, steps, success, totalFiles, totalSize, budget,
                   exitCode, report, styles, cssRun, dist>>

StepClean ==
    /\ running /\ pc = "clean"
    /\ \E rmOk \in BOOLEAN, mkdirOk \in BOOLEAN :
          LET r == cleanDistDirectory(dist, rmOk, mkdirOk)
          IN  /\ dist' = r.dist
              /\ AfterStage("clean", r.result)
    /\ UNCHANGED nonBuildVars
    /\ UNCHANGED <<stepFiles, duration>>
    /\ UNCHANGED <<started, success, totalFiles, totalSize, budget, exitCode,
                   report, styles, cssRun>>

StepCSS ==
    /\ running /\ pc = "optimize-css"
    /\ \E scriptOk \in BOOLEAN, outDirOk \in BOOLEAN, listOk \in BOOLEAN,
          criticalWriteOk \in BOOLEAN,
          sizes \in [Range(DirNames) -> CssOutSizes] :
          LET run == optimizeCSS(styles, outDirOk, listOk, sizes, criticalWriteOk)
          IN  /\ cssRun' = IF scriptOk THEN << run >> ELSE <<>>
              /\ dist' = IF scriptOk
                         THEN [dist EXCEPT !.cssOut = run.results,
                                           !.critical = IF run.critical THEN "fresh"
                                                        ELSE @]
                         ELSE dist
              /\ AfterStage("optimize-css", runCSSOptimization(scriptOk, run))
    /\ UNCHANGED nonBuildVars
    /\ UNCHANGED <<stepFiles, duration>>
    /\ UNCHANGED <<started, success, totalFiles, totalSize, budget, exitCode,
                   report, styles>>

StepImages ==
    /\ running /\ pc = "optimize-images"
    /\ \E scriptOk \in BOOLEAN, childExit \in {0, 1} :
          AfterStage("optimize-images", runImageOptimization(scriptOk, childExit))
    /\ UNCHANGED nonBuildVars
    /\ UNCHANGED <<stepFiles, duration>>
    /\ UNCHANGED <<started, success, totalFiles, totalSize, budget, exitCode,
                   report, styles, cssRun, dist>>

StepJS ==
    /\ running /\ pc = "minify-js"
    /\ \E dirsOk \in BOOLEAN, files \in SeqsUpTo(JsOutSizes, MaxJsFiles) :
          LET r == minifyJavaScript(dirsOk, files)
          IN  /\ dist' = IF r.ok THEN [dist EXCEPT !.jsOut = files] ELSE dist
              /\ totalFiles' = IF r.ok THEN totalFiles + Len(r.value.files)
                               ELSE totalFiles
              /\ stepFiles' = IF r.ok THEN withFiles(stepFiles, "js", r.value.files)
                              ELSE stepFiles
              /\ AfterStage("minify-js", r)
    /\ UNCHANGED nonBuildVars
    /\ UNCHANGED duration
    /\ UNCHANGED <<started, success, totalSize, budget, exitCode, report,
                   styles, cssRun>>

StepHTML ==
    /\ running /\ pc = "optimize-html"
    /\ \E fileOk \in BOOLEAN, criticalReadOk \in BOOLEAN, size \in HtmlOutSizes :
          LET r == optimizeHTML(fileOk, size,
                                IF criticalReadOk THEN dist.critical ELSE "absent")
          IN  /\ dist' = [dist EXCEPT !.htmlOut = r.value.files]
              /\ totalFiles' = totalFiles + Len(r.value.files)
              /\ stepFiles' = withFiles(stepFiles, "html", r.value.files)
              /\ AfterStage("optimize-html", r)
    /\ UNCHANGED nonBuildVars
    /\ UNCHANGED duration
    /\ UNCHANGED <<started, success, totalSize, budget, exitCode, report,
                   styles, cssRun>>

StepBudget ==
    /\ running /\ pc = "validate-budget"
    /\ \E readOk \in BOOLEAN :
          LET r == validatePerformanceBudget(
                       readOk,
                       [i \in 1..Len(dist.htmlOut) |-> dist.htmlOut[i].size],
                       [i \in 1..Len(dist.cssOut) |-> dist.cssOut[i].optimizedSize],
                       dist.jsOut)
          IN  /\ budget' = IF r.ok THEN << r.value >> ELSE budget
              /\ totalSize' = IF r.ok THEN r.value.totalSize ELSE totalSize
              /\ duration' = IF r.ok THEN << "elapsed" >> ELSE duration
              /\ AfterStage("validate-budget", r)
    /\ UNCHANGED nonBuildVars
    /\ UNCHANGED stepFiles
    /\ UNCHANGED <<started, success, totalFiles, exitCode, report, styles,
                   cssRun, dist>>

StepReport ==
    /\ running /\ pc = "generate-report"
    /\ \E writeOk \in BOOLEAN :
          LET r == generateBuildReport(writeOk, steps, success, budget,
                                       totalFiles, totalSize, stepFiles, duration)
          IN  /\ report' = IF r.ok THEN << r.value >> ELSE report
              /\ dist' = IF r.ok THEN [dist EXCEPT !.reportFile = "fresh"] ELSE dist
              /\ AfterStage("generate-report", r)
    /\ UNCHANGED nonBuildVars
    /\ UNCHANGED <<stepFiles, duration>>
    /\ UNCHANGED <<started, success, totalFiles, totalSize, budget, exitCode,
                   styles, cssRun>>

\* Mutant of BuildSummary: the exit code ignores the budget.
BuildSummary_ExitZero ==
    /\ pc = "summary"
    /\ exitCode' = << 0 >>
    /\ pc' = "exited"
    /\ UNCHANGED nonBuildVars
    /\ UNCHANGED <<stepFiles, duration>>
    /\ UNCHANGED <<running, started, returned, steps, success, totalFiles,
                   totalSize, budget, report, styles, cssRun, dist>>

\* The end of the try block: process.exit(buildResults.budget.passed ? 0 : 1).
BuildSummary ==
    /\ pc = "summary"
    /\ exitCode' = << IF budget[1].passed THEN 0 ELSE 1 >>
    /\ pc' = "exited"
    /\ UNCHANGED nonBuildVars
    /\ UNCHANGED <<stepFiles, duration>>
    /\ UNCHANGED <<running, started, returned, steps, success, totalFiles,
                   totalSize, budget, report, styles, cssRun, dist>>

\* Mutant of BuildCatch: the catch block does not end the process.
BuildCatch_NoExit ==
    /\ pc = "catch"
    /\ success' = FALSE
    /\ UNCHANGED nonBuildVars
    /\ UNCHANGED <<stepFiles, duration>>
    /\ UNCHANGED <<pc, exitCode, running, started, returned, steps, totalFiles,
                   totalSize, budget, report, styles, cssRun, dist>>

\* The catch block: buildResults.success = false; process.exit(1).
BuildCatch ==
    /\ pc = "catch"
    /\ success' = FALSE
    /\ exitCode' = << 1 >>
    /\ pc' = "exited"
    /\ UNCHANGED nonBuildVars
    /\ UNCHANGED <<stepFiles, duration>>
    /\ UNCHANGED <<running, started, returned, steps, totalFiles, totalSize,
                   budget, report, styles, cssRun, dist>>

Next ==
    \/ CallStage
    \/ StepClean
    \/ StepCSS
    \/ StepImages
    \/ StepJS
    \/ StepHTML
    \/ StepBudget
    \/ StepReport
    \/ BuildSummary
    \/ BuildCatch

Spec == Init /\ [][Next]_vars

\* Every awaited stage call returns and the event loop runs build() on.
FairSpec == Spec /\ WF_vars(Next)

(***************************************************************************)
(* purgeUnusedCSS applied to every input.                                  *)
(***************************************************************************)
BuildIdle ==
    /\ pc = "exited"
    /\ running = FALSE
    /\ started = <<>>
    /\ returned = <<>>
    /\ steps = {}
    /\ success = TRUE
    /\ totalFiles = 0
    /\ totalSize = 0
    /\ budget = <<>>
    /\ exitCode = <<>>
    /\ report = <<>>
    /\ stepFiles = NoFiles
    /\ duration = <<>>
    /\ cssRun = <<>>
    /\ styles = [n \in Range(DirNames) |-> "absent"]
    /\ dist = EmptyDist

InitPurge ==
    /\ BuildIdle
    /\ JsIdle
    /\ HtmlIdle
    /\ ImageIdle
    /\ SiteIdle
    /\ cssRules \in RuleInputs
    /\ markup \in MarkupInputs
    /\ purged = <<>>
    /\ cssText = <<>>
    /\ minified = <<>>

Purge ==
    /\ purged = <<>>
    /\ purged' = << purgeUnusedCSS(sourceText(cssRules), markupText(markup)) >>
    /\ UNCHANGED <<siteVars, buildVars, jsVars, htmlVars, imageVars>>
    /\ UNCHANGED <<cssRules, markup, cssText, minified>>

SpecPurge == InitPurge /\ [][Purge]_vars

(***************************************************************************)
(* minifyCSS applied to every input, and again to its own output.          *)
(***************************************************************************)
MaxCssLen == 5

CssChars == {"a", "{", "}", ";", " ", "/", "*"}

InitMinify ==
    /\ BuildIdle
    /\ JsIdle
    /\ HtmlIdle
    /\ ImageIdle
    /\ SiteIdle
    /\ cssRules = <<>>
    /\ markup = [name |-> <<>>, value |-> <<>>]
    /\ purged = <<>>
    /\ cssText \in SeqsUpTo(CssChars, MaxCssLen)
    /\ minified = <<>>

Minify ==
    /\ minified = <<>>
    /\ minified' = << minifyCSS(cssText) >>
    /\ UNCHANGED <<siteVars, buildVars, jsVars, htmlVars, imageVars>>
    /\ UNCHANGED <<cssRules, markup, purged, cssText>>

MinifyAgain ==
    /\ Len(minified) = 1
    /\ minified' = Append(minified, minifyCSS(minified[1]))
    /\ UNCHANGED <<siteVars, buildVars, jsVars, htmlVars, imageVars>>
    /\ UNCHANGED <<cssRules, markup, purged, cssText>>

NextMinify ==
    \/ Minify
    \/ MinifyAgain

SpecMinify == InitMinify /\ [][NextMinify]_vars

(***************************************************************************)
(* minifyJSFile applied to every input, and again to its own output.       *)
(***************************************************************************)
MaxJsLen == 5

MaxCommentLen == 8

JsChars == {"a", " ", "\n", ";", "/", "*"}

CommentChars == {"/", "*"}

\* Scenario B: "// comment\nconst x = 1;\n"
ScenarioScript ==
    << "/", "/", " ", "c", "o", "m", "m", "e", "n", "t", "\n", "c", "o",
       "n", "s", "t", " ", "x", " ", "=", " ", "1", ";", "\n" >>

JsInputs ==
    SeqsUpTo(JsChars, MaxJsLen) \cup SeqsUpTo(CommentChars, MaxCommentLen)
        \cup { ScenarioScript }

InitMinifyJS ==
    /\ BuildIdle
    /\ TextIdle
    /\ HtmlIdle
    /\ ImageIdle
    /\ SiteIdle
    /\ jsText \in JsInputs
    /\ jsMinified = <<>>

MinifyJS ==
    /\ jsMinified = <<>>
    /\ \E readOk \in BOOLEAN, writeOk \in BOOLEAN :
          jsMinified' = << minifyJSFile(readOk, writeOk, jsText) >>
    /\ UNCHANGED <<siteVars, buildVars, textVars, htmlVars, imageVars, jsText>>

\* The output file is minified again.
MinifyJSAgain ==
    /\ Len(jsMinified) = 1
    /\ jsMinified[1].ok
    /\ \E readOk \in BOOLEAN, writeOk \in BOOLEAN :
          jsMinified' = Append(jsMinified,
                               minifyJSFile(readOk, writeOk, jsMinified[1].value.written))
    /\ UNCHANGED <<siteVars, buildVars, textVars, htmlVars, imageVars, jsText>>

NextMinifyJS ==
    \/ MinifyJS
    \/ MinifyJSAgain

SpecMinifyJS == InitMinifyJS /\ [][NextMinifyJS]_vars

(***************************************************************************)
(* optimizeHTMLFile applied to every input.                                *)
(***************************************************************************)
MaxPieces == 3

\* The pieces an index.html is put together from.
PieceNames == {"link", "linkLines", "icon", "comment", "hiddenLink", "ie",
               "style", "text", "space", "p"}

linkPiece ==
    << "<", "l", "i", "n", "k", " ", "r", "e", "l", "=", "\"", "s", "t",
       "y", "l", "e", "s", "h", "e", "e", "t", "\"", " ", "h", "r", "e",
       "f", "=", "\"", "a", "\"", ">" >>

linkLinesPiece ==
    << "<", "l", "i", "n", "k", "\n", "r", "e", "l", "=", "'", "s", "t",
       "y", "l", "e", "s", "h", "e", "e", "t", "'", ">" >>

iconPiece ==
    << "<", "l", "i", "n", "k", " ", "r", "e", "l", "=", "\"", "i", "c",
       "o", "n", "\"", ">" >>

commentPiece ==
    << "<", "!", "-", "-", " ", "c", " ", "-", "-", ">" >>

hiddenLinkPiece ==
    << "<", "!", "-", "-", "<", "l", "i", "n", "k", " ", "r", "e", "l",
       "=", "\"", "s", "t", "y", "l", "e", "s", "h", "e", "e", "t", "\"",
       ">", "-", "-", ">" >>

iePiece ==
    << "<", "!", "-", "-", "[", "i", "f", " ", "I", "E", "]", ">", "x",
       "<", "!", "[", "e", "n", "d", "i", "f", "]", "-", "-", ">" >>

stylePiece ==
    << "<", "s", "t", "y", "l", "e", ">", "b", "<", "/", "s", "t", "y",
       "l", "e", ">" >>

pieceText(name) ==
    CASE name = "link" -> linkPiece
      [] name = "linkLines" -> linkLinesPiece
      [] name = "icon" -> iconPiece
      [] name = "comment" -> commentPiece
      [] name = "hiddenLink" -> hiddenLinkPiece
      [] name = "ie" -> iePiece
      [] name = "style" -> stylePiece
      [] name = "text" -> << "a" >>
      [] name = "space" -> << " ", "\n", " " >>
      [] OTHER -> << "<", "p", ">" >>

RECURSIVE docText(_)
docText(doc) ==
    IF doc = <<>> THEN <<>> ELSE pieceText(Head(doc)) \o docText(Tail(doc))

\* What dist/critical.css may hold when it exists.
CriticalContents == { << "p", "{", "c", "}" >> }

InitHtml ==
    /\ BuildIdle
    /\ TextIdle
    /\ JsIdle
    /\ ImageIdle
    /\ SiteIdle
    /\ htmlDoc \in SeqsUpTo(PieceNames, MaxPieces)
    /\ criticalFile \in { <<>> } \cup { << c >> : c \in CriticalContents }
    /\ htmlResult = <<>>

\* optimizeHTML calls optimizeHTMLFile for index.html.
OptimizeHTMLFile ==
    /\ htmlResult = <<>>
    /\ \E readOk \in BOOLEAN, writeOk \in BOOLEAN :
          LET r == optimizeHTMLFile(readOk, writeOk, docText(htmlDoc), criticalFile)
          IN  htmlResult' =
                  << [readOk |-> readOk, writeOk |-> writeOk, file |-> r,
                      stage |-> optimizeHTML(r.ok,
                                             IF r.ok THEN r.value.optimizedSize ELSE 0,
                                             IF criticalFile = <<>> THEN "absent"
                                             ELSE "fresh")] >>
    /\ UNCHANGED <<siteVars, buildVars, textVars, jsVars, imageVars, htmlDoc, criticalFile>>

SpecHtml == InitHtml /\ [][OptimizeHTMLFile]_vars

(***************************************************************************)
(* optimize-images.js: the run of main().                                  *)
(***************************************************************************)
InitImages ==
    /\ BuildIdle
    /\ TextIdle
    /\ JsIdle
    /\ HtmlIdle
    /\ SiteIdle
    /\ imgPc = "start"
    /\ sharp \in BOOLEAN
    /\ source0 \in { d \in [SourceNames -> {"absent", "original", "unreadable"}] :
                       /\ \A n \in Range(Catalog) : d[n] # "unreadable"
                       /\ d["notes.txt"] # "unreadable" }
    /\ source = source0
    /\ examined = <<>>
    /\ fetches = {}
    /\ acquired = [downloaded |-> 0, skipped |-> 0, failed |-> 0]
    /\ output = NoOutput
    /\ optimization = <<>>
    /\ imgExit = <<>>

\* main() calls processUnsplashImages: ensureDirectory(sourceDir), which can
\* fail only when the directory is not there yet.
ImgStart ==
    /\ imgPc = "start"
    /\ \E mkdirOk \in BOOLEAN :
          IF mkdirOk \/ \E n \in SourceNames : source[n] # "absent"
          THEN imgPc' = "acquire" /\ UNCHANGED imgExit
          ELSE imgPc' = "exited" /\ imgExit' = << 1 >>
    /\ UNCHANGED <<siteVars, buildVars, textVars, jsVars, htmlVars>>
    /\ UNCHANGED <<sharp, source0, source, examined, fetches, acquired, output,
                   optimization>>

\* One turn of the loop of processUnsplashImages.
ImgAcquire ==
    /\ imgPc = "acquire"
    /\ Len(examined) < Len(Catalog)
    /\ LET name == Catalog[Len(examined) + 1]
           last == Len(examined) + 1 = Len(Catalog)
       IN  IF existsSync(source, name)
           THEN /\ acquired' = [acquired EXCEPT !.skipped = @ + 1]
                /\ examined' = Append(examined, [name |-> name, outcome |-> "skipped"])
                /\ imgPc' = IF last THEN "optimize" ELSE "acquire"
                /\ UNCHANGED <<source, fetches, imgExit>>
           ELSE \E outcome \in DownloadOutcomes :
                  LET d == downloadImage(outcome)
                  IN  /\ fetches' = fetches \cup {name}
                      /\ source' = [source EXCEPT ![name] = d.file]
                      /\ examined' = Append(examined, [name |-> name, outcome |-> outcome])
                      /\ acquired' =
                             CASE d.settled = "resolved" ->
                                      [acquired EXCEPT !.downloaded = @ + 1]
                               [] d.settled = "rejected" ->
                                      [acquired EXCEPT !.failed = @ + 1]
                               [] OTHER -> acquired
                      /\ imgPc' = CASE d.settled = "pending" -> "stalled"
                                    [] d.settled = "crashed" -> "exited"
                                    [] OTHER -> IF last THEN "optimize" ELSE "acquire"
                      /\ imgExit' = IF d.settled = "crashed" THEN << 1 >> ELSE imgExit
    /\ UNCHANGED <<siteVars, buildVars, textVars, jsVars, htmlVars>>
    /\ UNCHANGED <<sharp, source0, output, optimization>>

\* main() calls optimizeWithSharp or optimizeWithoutSharp; a throw ends the
\* process with exit code 1.
ImgOptimize ==
    /\ imgPc = "optimize"
    /\ \E outDirOk \in BOOLEAN, listOk \in BOOLEAN :
          LET r == IF sharp THEN optimizeWithSharp(source, outDirOk, listOk)
                   ELSE optimizeWithoutSharp(source, outDirOk, listOk)
          IN  /\ optimization' = << r >>
              /\ output' = [n \in SourceNames |->
                               IF n \notin r.written THEN "absent"
                               ELSE IF sharp THEN "derived" ELSE source[n]]
              /\ IF r.status = "threw"
                 THEN imgPc' = "exited" /\ imgExit' = << 1 >>
                 ELSE imgPc' = "report" /\ UNCHANGED imgExit
    /\ UNCHANGED <<siteVars, buildVars, textVars, jsVars, htmlVars>>
    /\ UNCHANGED <<sharp, source0, source, examined, fetches, acquired>>

\* main() calls generateReport, then process.exit(0); a failed write ends the
\* process with exit code 1.
ImgReport ==
    /\ imgPc = "report"
    /\ \E writeOk \in BOOLEAN :
          imgExit' = << IF writeOk THEN 0 ELSE 1 >>
    /\ imgPc' = "exited"
    /\ UNCHANGED <<siteVars, buildVars, textVars, jsVars, htmlVars>>
    /\ UNCHANGED <<sharp, source0, source, examined, fetches, acquired, output,
                   optimization>>

NextImages ==
    \/ ImgStart
    \/ ImgAcquire
    \/ ImgOptimize
    \/ ImgReport

SpecImages == InitImages /\ [][NextImages]_vars

(***************************************************************************)
(* optimize-images.js run again and again: each run starts from the source *)
(* directory the run before left.                                          *)
(***************************************************************************)
\* The first run: sharp is installed and the source directory holds nothing
\* but catalog images.
InitImageRuns ==
    /\ InitImages
    /\ sharp
    /\ source0["local.png"] = "absent"
    /\ source0["notes.txt"] = "absent"

\* The script has ended (or hangs and is stopped) and is started again.
ImgRunAgain ==
    /\ imgPc \in {"exited", "stalled"}
    /\ imgPc' = "start"
    /\ source0' = source
    /\ examined' = <<>>
    /\ fetches' = {}
    /\ acquired' = [downloaded |-> 0, skipped |-> 0, failed |-> 0]
    /\ output' = NoOutput
    /\ optimization' = <<>>
    /\ imgExit' = <<>>
    /\ imgFirst' = IF imgFirst = <<>> THEN << source0 >> ELSE imgFirst
    /\ downloadedEver' = downloadedEver \cup
           { examined[i].name : i \in { k \in 1..Len(examined) : examined[k].outcome = "ok" } }
    /\ failedLast' =
           { examined[i].name : i \in { k \in 1..Len(examined) :
                                           examined[k].outcome \in {"status", "requestError"} } }
    /\ UNCHANGED <<buildVars, textVars, jsVars, htmlVars, criticalVars, dirVars, pageVars>>
    /\ UNCHANGED <<sharp, source>>

NextImageRuns ==
    \/ NextImages
    \/ ImgRunAgain

SpecImageRuns == InitImageRuns /\ [][NextImageRuns]_vars

(***************************************************************************)
(* validatePerformanceBudget applied to every content of the output root:  *)
(* build() as it is when it calls the budget stage.                        *)
(***************************************************************************)
BudgetHtmlSizes == {BUDGET_HTML, BUDGET_HTML + 1}

BudgetCssSizes == {BUDGET_CSS, BUDGET_CSS + 1}

BudgetJsSizes == {BUDGET_JS, BUDGET_JS + 1, 450 * 1024}

htmlFilesOf(sizes) == [i \in 1..Len(sizes) |-> [size |-> sizes[i], inlined |-> "absent"]]

cssFilesOf(sizes) ==
    [i \in 1..Len(sizes) |-> [name |-> DirNames[i], optimizedSize |-> sizes[i]]]

\* Scenario D: 520KB in all, no file over its own limit.
ScenarioSizes ==
    [html |-> << 50 * 1024 >>,
     css |-> << 30 * 1024, 30 * 1024 >>,
     js |-> << 50 * 1024, 50 * 1024, 50 * 1024, 50 * 1024, 50 * 1024,
               50 * 1024, 50 * 1024, 50 * 1024, 10 * 1024 >>]

BudgetInputs ==
    [html : SeqsUpTo(BudgetHtmlSizes, 1),
     css : SeqsUpTo(BudgetCssSizes, 2),
     js : SeqsUpTo(BudgetJsSizes, MaxJsFiles)] \cup { ScenarioSizes }

InitBudget ==
    /\ TextIdle
    /\ JsIdle
    /\ HtmlIdle
    /\ ImageIdle
    /\ SiteIdle
    /\ pc = "validate-budget"
    /\ running = TRUE
    /\ started = SubSeq(STEPS, 1, 6)
    /\ returned = [i \in 1..5 |-> [stage |-> STEPS[i], ok |-> TRUE, arms |-> {"value"}]]
    /\ steps = {"clean", "css", "images", "js", "html"}
    /\ success = TRUE
    /\ totalSize = 0
    /\ budget = <<>>
    /\ exitCode = <<>>
    /\ report = <<>>
    /\ duration = <<>>
    /\ cssRun = <<>>
    /\ styles = [n \in Range(DirNames) |-> "absent"]
    /\ \E in \in BudgetInputs :
          /\ dist = [EmptyDist EXCEPT !.exists = TRUE,
                                      !.htmlOut = htmlFilesOf(in.html),
                                      !.cssOut = cssFilesOf(in.css),
                                      !.jsOut = in.js]
          /\ stepFiles = withFiles(withFiles(NoFiles, "js", in.js),
                                   "html", htmlFilesOf(in.html))
          /\ totalFiles = Len(in.js) + Len(in.html)

SpecBudget == InitBudget /\ [][StepBudget]_vars

(***************************************************************************)
(* extractCriticalCSS applied to every stylesheet of up to MaxCssLines     *)
(* lines, each line one of CssLineNames.                                   *)
(***************************************************************************)
MaxCssLines == 5

CssLineNames == {"layer", "nav", "navOne", "plain", "decl", "close"}

cssLineText(name) ==
    CASE name = "layer" -> << "@", "l", "a", "y", "e", "r", " ", "c", "r", "i", "t", "i", "c", "a", "l", " ", "{" >>
      [] name = "nav" -> << ".", "n", "a", "v", " ", "{" >>
      [] name = "navOne" -> << ".", "n", "a", "v", " ", "{", " ", "a", " ", "}" >>
      [] name = "plain" -> << "p", " ", "{" >>
      [] name = "decl" -> << " ", " ", "a", ";" >>
      [] OTHER -> << "}" >>

\* The stylesheet text: its lines joined by line feeds.
cssSource(names) == join([n \in 1..Len(names) |-> cssLineText(names[n])], << "\n" >>)

InitCritical ==
    /\ BuildIdle
    /\ TextIdle
    /\ JsIdle
    /\ HtmlIdle
    /\ ImageIdle
    /\ DirIdle
    /\ RunsIdle
    /\ PageIdle
    /\ cssLines \in SeqsUpTo(CssLineNames, MaxCssLines)
    /\ extracted = <<>>

\* generateCriticalCSS calls extractCriticalCSS on the content of main.css.
ExtractCriticalCSS ==
    /\ extracted = <<>>
    /\ extracted' = << [lines |-> criticalLines(cssSource(cssLines)),
                        css |-> extractCriticalCSS(cssSource(cssLines))] >>
    /\ UNCHANGED <<pipelineVars, dirVars, runVars, pageVars, cssLines>>

SpecCritical == InitCritical /\ [][ExtractCriticalCSS]_vars

(***************************************************************************)
(* ensureDirectory called on one path by MaxCallers callers, each up to    *)
(* MaxCalls times; the steps of the calls interleave at their awaits.      *)
(***************************************************************************)
MaxCalls == 2

InitEnsure ==
    /\ BuildIdle
    /\ TextIdle
    /\ JsIdle
    /\ HtmlIdle
    /\ ImageIdle
    /\ CriticalIdle
    /\ RunsIdle
    /\ PageIdle
    /\ dirExists \in BOOLEAN
    /\ callerPc = [p \in Callers |-> "ready"]
    /\ callerCalls = [p \in Callers |-> 0]
    /\ callerDone = [p \in Callers |-> 0]

\* A caller calls ensureDirectory: fs.access is started.
EnsureCall(p) ==
    /\ callerPc[p] = "ready"
    /\ callerCalls[p] < MaxCalls
    /\ callerPc' = [callerPc EXCEPT ![p] = "access"]
    /\ callerCalls' = [callerCalls EXCEPT ![p] = @ + 1]
    /\ UNCHANGED <<pipelineVars, criticalVars, runVars, pageVars, dirExists, callerDone>>

\* fs.access settles: the call completes when the directory is there, else
\* the catch block starts fs.mkdir.
EnsureAccess(p) ==
    /\ callerPc[p] = "access"
    /\ IF dirExists
       THEN /\ callerPc' = [callerPc EXCEPT ![p] = "ready"]
            /\ callerDone' = [callerDone EXCEPT ![p] = @ + 1]
       ELSE /\ callerPc' = [callerPc EXCEPT ![p] = "mkdir"]
            /\ UNCHANGED callerDone
    /\ UNCHANGED <<pipelineVars, criticalVars, runVars, pageVars, dirExists, callerCalls>>

\* fs.mkdir settles: the call completes, or throws what mkdir threw.
EnsureMkdir(p) ==
    /\ callerPc[p] = "mkdir"
    /\ LET made == mkdirRecursive(dirExists)
       IN  /\ dirExists' = made.exists
           /\ IF made.threw
              THEN /\ callerPc' = [callerPc EXCEPT ![p] = "threw"]
                   /\ UNCHANGED callerDone
              ELSE /\ callerPc' = [callerPc EXCEPT ![p] = "ready"]
                   /\ callerDone' = [callerDone EXCEPT ![p] = @ + 1]
    /\ UNCHANGED <<pipelineVars, criticalVars, runVars, pageVars, callerCalls>>

NextEnsure ==
    \/ \E p \in Callers : EnsureCall(p)
    \/ \E p \in Callers : EnsureAccess(p)
    \/ \E p \in Callers : EnsureMkdir(p)

SpecEnsure == InitEnsure /\ [][NextEnsure]_vars

(***************************************************************************)
(* contact-form.js: submit events, reset clicks and the requests of the    *)
(* submissions, interleaving where the code awaits.                        *)
(***************************************************************************)
MaxSubmits == 3

MaxResets == 1

MAX_RETRIES == 2

\* What a request to Formspree can end in: a response with ok, an error that
\* shouldRetry refuses (a response that is not ok, a body without ok), or an
\* error whose message shouldRetry accepts ("Failed to fetch", ...).
FetchOutcomes == {"ok", "rejected", "network"}

\* Mutant of submissionInProgress: the listener never sees a submission.
submissionInProgress_Never(flag) == FALSE

\* The listener's test of formState.isSubmitting.
submissionInProgress(flag) == flag

\* shouldRetry(error): whether the error's message names a network failure.
shouldRetry(outcome) == outcome = "network"

\* A record of submissions: pc is "fetch" (a request is out), "delay" (the
\* wait before a retry) or "done"; requests counts the requests sent;
\* allNetwork says that every request so far failed with a network error;
\* resetSeen that the reset button was clicked while it was in progress.
\* The submissions that have not finished.
activeSubmissions == { i \in 1..Len(submissions) : submissions[i].pc # "done" }

InitForm ==
    /\ BuildIdle
    /\ TextIdle
    /\ JsIdle
    /\ HtmlIdle
    /\ ImageIdle
    /\ CriticalIdle
    /\ DirIdle
    /\ RunsIdle
    /\ FormIdle
    /\ LazyIdle
    /\ AppIdle

\* A submit event: the listener returns at once when a submission is in
\* progress; else handleFormSubmit runs up to its first await: a validation
\* error ends it (finally clears isSubmitting), valid fields set isSubmitting
\* and send the first request.
SubmitEvent ==
    /\ submitEvents < MaxSubmits
    /\ submitEvents' = submitEvents + 1
    /\ \/ /\ submissionInProgress(isSubmitting)
          /\ ignoredSubmits' = ignoredSubmits + 1
          /\ UNCHANGED <<isSubmitting, submissions>>
       \/ /\ ~submissionInProgress(isSubmitting)
          /\ \E valid \in BOOLEAN :
                IF valid
                THEN /\ isSubmitting' = TRUE
                     /\ submissions' = Append(submissions,
                            [pc |-> "fetch", requests |-> 1, allNetwork |-> TRUE,
                             result |-> "none", resetSeen |-> FALSE])
                ELSE /\ isSubmitting' = FALSE
                     /\ submissions' = Append(submissions,
                            [pc |-> "done", requests |-> 0, allNetwork |-> FALSE,
                             result |-> "invalid", resetSeen |-> FALSE])
          /\ UNCHANGED ignoredSubmits
    /\ UNCHANGED <<offPageVars, lazyVars, appVars, retryCount, resetClicks>>

\* The request of submission i settles. Success clears retryCount; a network
\* error with retryCount under MAX_RETRIES counts a retry and waits; anything
\* else is the failure of the submission. A finished submission returns to
\* handleFormSubmit, whose finally clears isSubmitting.
FetchSettles(i, outcome) ==
    /\ submissions[i].pc = "fetch"
    /\ LET s == [submissions[i] EXCEPT !.allNetwork = @ /\ outcome = "network"]
       IN  IF outcome = "ok"
           THEN /\ retryCount' = 0
                /\ submissions' = [submissions EXCEPT
                       ![i] = [s EXCEPT !.pc = "done", !.result = "success"]]
                /\ isSubmitting' = FALSE
           ELSE IF shouldRetry(outcome) /\ retryCount < MAX_RETRIES
           THEN /\ retryCount' = retryCount + 1
                /\ submissions' = [submissions EXCEPT ![i] = [s EXCEPT !.pc = "delay"]]
                /\ UNCHANGED isSubmitting
           ELSE /\ submissions' = [submissions EXCEPT
                       ![i] = [s EXCEPT !.pc = "done", !.result = "failure"]]
                /\ isSubmitting' = FALSE
                /\ UNCHANGED retryCount
    /\ UNCHANGED <<offPageVars, lazyVars, appVars, submitEvents,
                   ignoredSubmits, resetClicks>>

\* The delay before a retry ends: submitToFormspree sends the next request.
DelayEnds(i) ==
    /\ submissions[i].pc = "delay"
    /\ submissions' = [submissions EXCEPT ![i].pc = "fetch", ![i].requests = @ + 1]
    /\ UNCHANGED <<offPageVars, lazyVars, appVars, isSubmitting, retryCount,
                   submitEvents, ignoredSubmits, resetClicks>>

\* A click on the reset button: the listener clears retryCount.
ResetClick ==
    /\ resetClicks < MaxResets
    /\ resetClicks' = resetClicks + 1
    /\ retryCount' = 0
    /\ submissions' = [i \in 1..Len(submissions) |->
           IF submissions[i].pc # "done"
           THEN [submissions[i] EXCEPT !.resetSeen = TRUE]
           ELSE submissions[i]]
    /\ UNCHANGED <<offPageVars, lazyVars, appVars, isSubmitting,
                   submitEvents, ignoredSubmits>>

NextForm ==
    \/ SubmitEvent
    \/ \E i \in 1..Len(submissions), outcome \in FetchOutcomes : FetchSettles(i, outcome)
    \/ \E i \in 1..Len(submissions) : DelayEnds(i)
    \/ ResetClick

SpecForm == InitForm /\ [][NextForm]_vars

(***************************************************************************)
(* lazy-loading.js: one image with a data-src, after initLazyLoading set   *)
(* up the observer or, without IntersectionObserver, the scroll fallback.  *)
(***************************************************************************)
MaxTriggers == 3

\* DEFAULT_CONFIG.retryAttempts; main.js overrides rootMargin and threshold only.
retryAttempts == 3

\* The loads that have not ended.
activeLoads == { i \in 1..Len(loads) : loads[i].pc # "done" }

InitLazy ==
    /\ BuildIdle
    /\ TextIdle
    /\ JsIdle
    /\ HtmlIdle
    /\ ImageIdle
    /\ CriticalIdle
    /\ DirIdle
    /\ RunsIdle
    /\ FormIdle
    /\ AppIdle
    /\ lazyMode \in {"observer", "fallback"}
    /\ imgLoading = FALSE
    /\ imgAttempts = 0
    /\ imgClasses = {"placeholder"}
    /\ observed = (lazyMode = "observer")
    /\ queuedEntries = 0
    /\ loads = <<>>
    /\ lazyTriggers = 0

\* The browser sees the intersection of the observed image change and queues
\* an entry for the observer's callback.
QueueEntry ==
    /\ lazyMode = "observer"
    /\ observed
    /\ lazyTriggers < MaxTriggers
    /\ lazyTriggers' = lazyTriggers + 1
    /\ queuedEntries' = queuedEntries + 1
    /\ UNCHANGED <<offPageVars, formVars, appVars, lazyMode, imgLoading, imgAttempts,
                   imgClasses, observed, loads>>

\* loadImageWithRetry up to its first await, on the image's state: a load in
\* progress makes it return at once, else it sets loading and starts attempt 1.
\* The result says whether it returned at once.
startLoad ==
    IF imgLoading
    THEN [returned |-> TRUE, loading |-> imgLoading, attempts |-> imgAttempts,
          loads |-> loads]
    ELSE [returned |-> FALSE, loading |-> TRUE, attempts |-> 1,
          loads |-> Append(loads, [pc |-> "attempt", attempt |-> 1, result |-> "none"])]

\* The observer's callback, handleIntersection, handles a queued entry of the
\* image: an intersecting entry adds the loading class and calls
\* loadImageWithRetry; when that returned at once its promise is fulfilled and
\* the image is unobserved.
DeliverEntry ==
    /\ queuedEntries > 0
    /\ queuedEntries' = queuedEntries - 1
    /\ \E isIntersecting \in BOOLEAN :
          IF isIntersecting
          THEN /\ imgClasses' = imgClasses \cup {"loading"}
               /\ imgLoading' = startLoad.loading
               /\ imgAttempts' = startLoad.attempts
               /\ loads' = startLoad.loads
               /\ observed' = IF startLoad.returned THEN FALSE ELSE observed
          ELSE UNCHANGED <<imgClasses, imgLoading, imgAttempts, loads, observed>>
    /\ UNCHANGED <<offPageVars, formVars, appVars, lazyMode, lazyTriggers>>

\* A scroll or resize (or the call at set-up) runs loadVisibleImages: an image
\* with the loaded or the error class is passed over; a visible one gets the
\* loading class and loadImageWithRetry is called.
ScrollTrigger ==
    /\ lazyMode = "fallback"
    /\ lazyTriggers < MaxTriggers
    /\ lazyTriggers' = lazyTriggers + 1
    /\ \E isVisible \in BOOLEAN :
          IF isVisible /\ "loaded" \notin imgClasses /\ "error" \notin imgClasses
          THEN /\ imgClasses' = imgClasses \cup {"loading"}
               /\ imgLoading' = startLoad.loading
               /\ imgAttempts' = startLoad.attempts
               /\ loads' = startLoad.loads
          ELSE UNCHANGED <<imgClasses, imgLoading, imgAttempts, loads>>
    /\ UNCHANGED <<offPageVars, formVars, appVars, lazyMode, observed, queuedEntries>>

\* The attempt of load i settles. onload: the image gets the loaded class and
\* loading is cleared. onerror: before the last attempt the load waits, at the
\* last attempt the image gets the error class and loading is cleared. The
\* caller of an ended load unobserves the image (observer set-up).
AttemptSettles(i, ok) ==
    /\ loads[i].pc = "attempt"
    /\ IF ok
       THEN /\ imgClasses' = (imgClasses \ {"loading", "placeholder"}) \cup {"loaded"}
            /\ imgLoading' = FALSE
            /\ loads' = [loads EXCEPT ![i].pc = "done", ![i].result = "loaded"]
            /\ observed' = FALSE
       ELSE IF loads[i].attempt < retryAttempts
       THEN /\ loads' = [loads EXCEPT ![i].pc = "delay"]
            /\ UNCHANGED <<imgClasses, imgLoading, observed>>
       ELSE /\ imgClasses' = (imgClasses \ {"loading", "placeholder"}) \cup {"error"}
            /\ imgLoading' = FALSE
            /\ loads' = [loads EXCEPT ![i].pc = "done", ![i].result = "error"]
            /\ observed' = FALSE
    /\ UNCHANGED <<offPageVars, formVars, appVars, lazyMode, imgAttempts, queuedEntries,
                   lazyTriggers>>

\* The wait of retryDelay * attempt ends: the loop starts the next attempt.
RetryDelayEnds(i) ==
    /\ loads[i].pc = "delay"
    /\ loads' = [loads EXCEPT ![i].pc = "attempt", ![i].attempt = @ + 1]
    /\ imgAttempts' = loads[i].attempt + 1
    /\ UNCHANGED <<offPageVars, formVars, appVars, lazyMode, imgLoading, imgClasses,
                   observed, queuedEntries, lazyTriggers>>

NextLazy ==
    \/ QueueEntry
    \/ DeliverEntry
    \/ ScrollTrigger
    \/ \E i \in 1..Len(loads), ok \in BOOLEAN : AttemptSettles(i, ok)
    \/ \E i \in 1..Len(loads) : RetryDelayEnds(i)

SpecLazy == InitLazy /\ [][NextLazy]_vars

(***************************************************************************)
(* main.js: calls of initializeApp and of cleanupApp, interleaving at the  *)
(* await of initializeApp.                                                 *)
(***************************************************************************)
MaxAppCalls == 4

MaxCleanups == 2

InitApp ==
    /\ BuildIdle
    /\ TextIdle
    /\ JsIdle
    /\ HtmlIdle
    /\ ImageIdle
    /\ CriticalIdle
    /\ DirIdle
    /\ RunsIdle
    /\ FormIdle
    /\ LazyIdle
    /\ AppIdle

\* initializeApp is called: it returns when AppState.initialized is set; else
\* it sets up the error handlers, calls initNavigation, initForm and
\* initImageLazyLoading (each runs to its end in the call) and awaits
\* Promise.allSettled of their promises.
CallInitializeApp ==
    /\ Len(appCalls) < MaxAppCalls
    /\ IF initialized
       THEN /\ appCalls' = Append(appCalls, "returned")
            /\ UNCHANGED initRuns
       ELSE /\ appCalls' = Append(appCalls, "awaiting")
            /\ initRuns' = initRuns + 1
    /\ UNCHANGED <<offPageVars, formVars, lazyVars, initialized, cleanups>>

\* The await of call c resumes: the call logs and sets AppState.initialized.
InitializeAppResumes(c) ==
    /\ appCalls[c] = "awaiting"
    /\ appCalls' = [appCalls EXCEPT ![c] = "done"]
    /\ initialized' = TRUE
    /\ UNCHANGED <<offPageVars, formVars, lazyVars, initRuns, cleanups>>

\* cleanupApp: the features are cleaned up and AppState.initialized cleared.
CleanupApp ==
    /\ cleanups < MaxCleanups
    /\ cleanups' = cleanups + 1
    /\ initialized' = FALSE
    /\ initRuns' = 0
    /\ UNCHANGED <<offPageVars, formVars, lazyVars, appCalls>>

NextApp ==
    \/ CallInitializeApp
    \/ \E c \in 1..Len(appCalls) : InitializeAppResumes(c)
    \/ CleanupApp

SpecApp == InitApp /\ [][NextApp]_vars

(***************************************************************************)
(* Claims about build().                                                   *)
(***************************************************************************)
AllStagesOk == Len(returned) = Len(STEPS) /\ \A i \in 1..Len(returned) : returned[i].ok

SomeStageFailed == \E i \in 1..Len(returned) : ~returned[i].ok

\* C1: stages are started only in the order clean, CSS, images, JS, HTML,
\* budget, report; none is started before the previous one returned, none twice.
C1_StagesInOrder ==
    /\ IsPrefix(started, STEPS)
    /\ Len(returned) <= Len(started)
    /\ Len(started) <= Len(returned) + 1
    /\ running <=> (Len(started) = Len(returned) + 1)
    /\ \A i \in 1..Len(returned) : returned[i].stage = started[i]

C1_Witness == pc = "exited" /\ started = STEPS /\ Len(returned) = Len(STEPS)

\* C2: once a stage returned a failed result no later stage is started, the
\* failure is recorded as success = false and the process exits non-zero.
C2_HaltOnFailure ==
    \A i \in 1..Len(returned) :
        ~returned[i].ok =>
            /\ i = Len(returned)
            /\ Len(started) = i
            /\ ~running
            /\ pc \in {"catch", "exited"}
            /\ pc = "exited" => (success = FALSE /\ exitCode = << 1 >>)

C2_Witness ==
    /\ pc = "exited"
    /\ Len(returned) = 3
    /\ ~returned[3].ok
    /\ started = SubSeq(STEPS, 1, 3)

\* C3: the exit code is 0 iff every stage returned ok and the budget validator
\* reported no violation; it is 1 in every other case.
C3_ExitCode ==
    pc = "exited" =>
        /\ exitCode \in { << 0 >>, << 1 >> }
        /\ exitCode = << 0 >> <=>
               (AllStagesOk /\ budget # <<>> /\ Len(budget[1].violations) = 0)

C3_Witness ==
    /\ pc = "exited"
    /\ AllStagesOk
    /\ Len(budget[1].violations) > 0
    /\ exitCode = << 1 >>

\* C4 (as claimed): a report is written at the end of every run, unless the
\* clean stage failed; a run whose report write itself failed is set aside.
C4_ReportAlwaysWritten ==
    (/\ pc = "exited"
     /\ returned[1].ok
     /\ returned[Len(returned)].stage # "generate-report")
        => report # <<>>

\* C5: every run reaches a terminal state, with exit code 0 (Succeeded) or
\* 1 (Failed), and no step is taken from a terminal state.
C5_Terminates ==
    /\ <>[](pc = "exited" /\ ~running /\ exitCode \in { << 0 >>, << 1 >> })
    /\ [][pc # "exited"]_vars

C5_Witness == pc = "exited" /\ exitCode = << 0 >> /\ AllStagesOk

\* The CSS stage could not read its only input CSS file.
OnlyInputUnreadable ==
    /\ cssRun # <<>>
    /\ cssRun[1].attempted # <<>>
    /\ \E n \in Range(DirNames) :
          /\ endsWithCss(n)
          /\ styles[n] = "unreadable"
          /\ \A m \in Range(DirNames) \ {n} : endsWithCss(m) => styles[m] = "absent"

\* C6 (as claimed): when the CSS stage fails to read its only input file the
\* image stage is not run, no steps.images key is set and the exit code is 1.
C6_UnreadableInputHalts ==
    OnlyInputUnreadable =>
        /\ "optimize-images" \notin Range(started)
        /\ "images" \notin steps
        /\ pc = "exited" => exitCode = << 1 >>

\* C6 (amended): an unreadable only input is left out of the results, the
\* child still exits 0 and the CSS stage returns ok; build() halts before the
\* image stage (no steps.images key, no report, exit code 1) when the CSS
\* stage returned a failed result.
C6_HaltsOnStageFailure ==
    /\ OnlyInputUnreadable =>
          /\ cssRun[1].exit = 0
          /\ cssRun[1].results = <<>>
          /\ Len(returned) >= 2 => returned[2].ok
    /\ (Len(returned) >= 2 /\ ~returned[2].ok) =>
          /\ "optimize-images" \notin Range(started)
          /\ "images" \notin steps
          /\ report = <<>>
          /\ pc = "exited" => exitCode = << 1 >>

C6_Witness ==
    /\ OnlyInputUnreadable
    /\ Len(returned) >= 3
    /\ returned[2].ok
    /\ "optimize-images" \in Range(started)

\* C7: a CSS file that cannot be read, or whose output cannot be written, is
\* left out of the results; every CSS file of the styles directory is still
\* processed, and the results are exactly the files read and written.
C7_CssResults ==
    (cssRun # <<>> /\ cssRun[1].exit = 0) =>
        /\ cssRun[1].attempted =
               SelectSeq(DirNames, LAMBDA n : endsWithCss(n) /\ styles[n] # "absent")
        /\ [i \in 1..Len(cssRun[1].results) |-> cssRun[1].results[i].name] =
               SelectSeq(DirNames, LAMBDA n : endsWithCss(n) /\ styles[n] = "ok")

C7_Witness ==
    /\ cssRun # <<>>
    /\ cssRun[1].exit = 0
    /\ styles["main.css"] = "unreadable"
    /\ styles["print.css"] = "ok"
    /\ Len(cssRun[1].results) = 1
    /\ cssRun[1].results[1].name = "print.css"

(***************************************************************************)
(* Claims about purgeUnusedCSS, stated on the rules and the attribute the  *)
(* input texts were written from.                                          *)
(***************************************************************************)
IsNameChar(c) == IsWordChar(c) \/ c = "-"

\* The names that follow the character `mark` in a selector: ".a.b" has the
\* class names a and b.
NamesAfter(sel, mark) ==
    { SubSeq(sel, i + 1, j) : i \in 1..Len(sel), j \in 1..Len(sel) } \cap
    { t \in SeqsUpTo(Range(sel), Len(sel)) :
        \E i \in 1..Len(sel) :
            /\ sel[i] = mark
            /\ t # <<>>
            /\ MatchesAt(sel, i + 1, t)
            /\ \A k \in 1..Len(t) : IsNameChar(t[k])
            /\ i + Len(t) = Len(sel) \/ ~IsNameChar(sel[i + Len(t) + 1]) }

\* The white-space separated tokens of an attribute value.
TokensOf(v) ==
    { SubSeq(v, i, j) : i \in 1..Len(v), j \in 1..Len(v) } \cap
    { t \in SeqsUpTo(Range(v), Len(v)) :
        \E i \in 1..Len(v) :
            /\ t # <<>>
            /\ MatchesAt(v, i, t)
            /\ \A k \in 1..Len(t) : ~IsSpace(t[k])
            /\ i = 1 \/ IsSpace(v[i - 1])
            /\ i + Len(t) - 1 = Len(v) \/ IsSpace(v[i + Len(t)]) }

\* The class tokens and the id of the markup's attribute.
MarkupClasses == IF markup.name = classAttr THEN TokensOf(markup.value) ELSE {}

MarkupIds == IF markup.name = idAttr /\ markup.value # <<>> THEN { markup.value } ELSE {}

\* What the class and id patterns capture: the value up to its first quote
\* character, if that part is not empty. A captured class value that starts
\* or ends with white space also yields the empty token.
UpToQuote(v) ==
    IF \E i \in 1..Len(v) : v[i] \in Quotes
    THEN SubSeq(v, 1, (CHOOSE i \in 1..Len(v) :
                          /\ v[i] \in Quotes
                          /\ \A k \in 1..(i - 1) : v[k] \notin Quotes) - 1)
    ELSE v

CapturedClasses ==
    LET v == UpToQuote(markup.value)
    IN  IF markup.name # classAttr \/ v = <<>> THEN {}
        ELSE TokensOf(v) \cup
             (IF IsSpace(v[1]) \/ IsSpace(v[Len(v)]) THEN { <<>> } ELSE {})

CapturedIds ==
    LET v == UpToQuote(markup.value)
    IN  IF markup.name # idAttr \/ v = <<>> THEN {} ELSE { v }

\* The output is the rules with index in K, in source order, one per line.
RECURSIVE pick(_, _, _)
pick(rules, K, i) ==
    IF i > Len(rules) THEN <<>>
    ELSE (IF i \in K THEN << ruleText(rules[i]) >> ELSE <<>>) \o pick(rules, K, i + 1)

OutputIs(K) == purged[1] = join(pick(cssRules, K, 1), << "\n" >>)

RuleIndices == 1..Len(cssRules)

\* C8 (as claimed): a rule whose selector has a class name that is a token of
\* the markup's class attribute value is kept in the output.
C8_UsedRuleKept ==
    purged # <<>> =>
        \E K \in SUBSET RuleIndices :
            /\ OutputIs(K)
            /\ \A k \in RuleIndices :
                  NamesAfter(cssRules[k].selector, ".") \cap MarkupClasses # {}
                      => k \in K

\* The rule the claim of C9 says is dropped: its selector does not start with
\* '@' or ':', has no '::', names no class or id of the markup and is not a
\* bare allow-listed element name.
ClaimedDropped(rule) ==
    LET sel == trim(rule.selector)
    IN  /\ ~startsWith(sel, << "@" >>)
        /\ ~startsWith(sel, << ":" >>)
        /\ ~includes(sel, << ":", ":" >>)
        /\ NamesAfter(sel, ".") \cap MarkupClasses = {}
        /\ NamesAfter(sel, "#") \cap MarkupIds = {}
        /\ sel \notin ElementNames

\* C9 (as claimed): every such rule is dropped, the kept rules are in source
\* order, and scenario A yields ".used{color:red}".
C9_UnusedRuleDropped ==
    purged # <<>> =>
        /\ \E K \in SUBSET RuleIndices :
              /\ OutputIs(K)
              /\ \A k \in K : ~ClaimedDropped(cssRules[k])
        /\ (cssRules = ScenarioRules /\ markup = ScenarioMarkup)
              => purged[1] = ScenarioPurged

\* The rule that is dropped: its selector does not start with '@' or ':', has
\* no '::', contains no '.' + token for a captured class token, no '#' + value
\* for a captured id value, and does not begin with an allow-listed element
\* name that ends at a non-word character.
AmendedDropped(rule) ==
    LET sel == trim(rule.selector)
    IN  /\ sel = <<>> \/ sel[1] \notin {"@", ":"}
        /\ \A i \in 1..(Len(sel) - 1) : ~(sel[i] = ":" /\ sel[i + 1] = ":")
        /\ \A t \in CapturedClasses, i \in 1..Len(sel) :
              ~(sel[i] = "." /\ MatchesAt(sel, i + 1, t))
        /\ \A t \in CapturedIds, i \in 1..Len(sel) :
              ~(sel[i] = "#" /\ MatchesAt(sel, i + 1, t))
        /\ \A e \in ElementNames :
              MatchesAt(sel, 1, e) => (Len(sel) > Len(e) /\ IsWordChar(sel[Len(e) + 1]))

\* C9 (amended): every rule that passes none of the keep tests is dropped, the
\* kept rules are in source order, and scenario A yields ".used{color:red}".
C9_UnmatchedRuleDropped ==
    purged # <<>> =>
        /\ \E K \in SUBSET RuleIndices :
              /\ OutputIs(K)
              /\ \A k \in K : ~AmendedDropped(cssRules[k])
        /\ (cssRules = ScenarioRules /\ markup = ScenarioMarkup)
              => purged[1] = ScenarioPurged

C9_Witness ==
    /\ cssRules = ScenarioRules
    /\ markup = ScenarioMarkup
    /\ purged = << ScenarioPurged >>

(***************************************************************************)
(* Claims about minifyCSS.                                                 *)
(***************************************************************************)
\* C10 (as claimed): minifying minified CSS changes nothing:
\* minifyCSS(minifyCSS(css)) = minifyCSS(css).
C10_MinifyIdempotent == Len(minified) = 2 => minified[2] = minified[1]

(***************************************************************************)
(* Claims about minifyJSFile.                                              *)
(***************************************************************************)
\* C11 (as claimed): minifying a minified script changes nothing: the second
\* pass over the output file writes the same text.
C11_MinifyJSIdempotent ==
    (Len(jsMinified) = 2 /\ jsMinified[2].ok) =>
        jsMinified[2].value.written = jsMinified[1].value.written

\* "const x=1;"
ClaimedScript ==
    << "c", "o", "n", "s", "t", " ", "x", "=", "1", ";" >>

\* "const x = 1;"
MinifiedScript ==
    << "c", "o", "n", "s", "t", " ", "x", " ", "=", " ", "1", ";" >>

\* The structural punctuation the specification lists: { } ( ) ; , :
StructuralPunctuation == {"{", "}", "(", ")", ";", ",", ":"}

\* C12 (as claimed): the script "// comment\nconst x = 1;\n" is minified to
\* "const x=1;".
C12_ScenarioUnspaced ==
    (jsText = ScenarioScript /\ jsMinified # <<>> /\ jsMinified[1].ok) =>
        jsMinified[1].value.written = ClaimedScript

\* C12 (amended): the output holds no line comment, its only white space is
\* single spaces between two characters that are not structural punctuation,
\* and "// comment\nconst x = 1;\n" is minified to "const x = 1;" ('=' is
\* not structural punctuation).
C12_ScenarioMinified ==
    (jsMinified # <<>> /\ jsMinified[1].ok) =>
        LET out == jsMinified[1].value.written
        IN  /\ ~includes(out, << "/", "/" >>)
            /\ \A i \in 1..Len(out) :
                  IsSpace(out[i]) =>
                      /\ out[i] = " "
                      /\ i > 1 /\ i < Len(out)
                      /\ ~IsSpace(out[i - 1]) /\ ~IsSpace(out[i + 1])
                      /\ out[i - 1] \notin StructuralPunctuation
                      /\ out[i + 1] \notin StructuralPunctuation
            /\ jsText = ScenarioScript => out = MinifiedScript

C12_Witness ==
    /\ jsText = ScenarioScript
    /\ jsMinified # <<>>
    /\ jsMinified[1].ok
    /\ jsMinified[1].value.written = MinifiedScript

(***************************************************************************)
(* Claims about optimizeHTMLFile, stated on the pieces the input was put   *)
(* together from.                                                          *)
(***************************************************************************)
\* The number of occurrences of t in s at or after i.
countOf(s, t, i) == Cardinality({ k \in i..Len(s) : MatchesAt(s, k, t) })

\* The number of pieces of the document that are one of `names`.
piecesOf(names) == Cardinality({ i \in 1..Len(htmlDoc) : htmlDoc[i] \in names })

\* C13: with no critical.css, optimizeHTMLFile returns ok whenever index.html
\* is read and the output written, its output has every stylesheet link of
\* the document and no <style> element the document did not have, and the
\* HTML stage returns ok.
C13_NoCriticalKeepsLink ==
    (htmlResult # <<>> /\ criticalFile = <<>>) =>
        /\ htmlResult[1].stage.ok
        /\ (htmlResult[1].readOk /\ htmlResult[1].writeOk) =>
              /\ htmlResult[1].file.ok
              /\ countOf(htmlResult[1].file.value.written, relStylesheet, 1)
                     = piecesOf({"link", "linkLines"})
              /\ countOf(htmlResult[1].file.value.written, linkOpen, 1)
                     = piecesOf({"link", "linkLines", "icon"})
              /\ countOf(htmlResult[1].file.value.written, styleOpen, 1)
                     = piecesOf({"style"})

C13_Witness ==
    /\ htmlResult # <<>>
    /\ criticalFile = <<>>
    /\ htmlDoc = << "comment", "link", "p" >>
    /\ htmlResult[1].file.ok
    /\ htmlResult[1].stage.ok
    /\ htmlResult[1].file.value.written = linkPiece \o << "<", "p", ">" >>

(***************************************************************************)
(* Claims about validatePerformanceBudget, stated on the files of the      *)
(* output root.                                                            *)
(***************************************************************************)
\* The output files the validator measures: << type, i >> is the i-th file of
\* its category.
MeasuredFiles ==
    { << "HTML", i >> : i \in 1..Len(dist.htmlOut) }
        \cup { << "CSS", i >> : i \in 1..Len(dist.cssOut) }
        \cup { << "JS", i >> : i \in 1..Len(dist.jsOut) }

sizeOf(f) ==
    CASE f[1] = "HTML" -> dist.htmlOut[f[2]].size
      [] f[1] = "CSS" -> dist.cssOut[f[2]].optimizedSize
      [] OTHER -> dist.jsOut[f[2]]

limitOf(f) ==
    CASE f[1] = "HTML" -> 50 * 1024
      [] f[1] = "CSS" -> 30 * 1024
      [] OTHER -> 50 * 1024

RECURSIVE sumOf(_)
sumOf(F) ==
    IF F = {} THEN 0
    ELSE LET f == CHOOSE x \in F : TRUE IN sizeOf(f) + sumOf(F \ {f})

ScenarioDist ==
    [EmptyDist EXCEPT !.exists = TRUE,
                      !.htmlOut = htmlFilesOf(ScenarioSizes.html),
                      !.cssOut = cssFilesOf(ScenarioSizes.css),
                      !.jsOut = ScenarioSizes.js]

\* C14: the violation list has one entry for exactly the HTML, CSS and JS
\* output files whose size is strictly greater than their category limit,
\* plus one TOTAL entry iff the sum of the sizes is strictly greater than the
\* total limit; passed iff the list is empty; 520KB in all with no file over
\* its limit gives exactly one violation, TOTAL, over by 20 * 1024 bytes.
C14_BudgetViolations ==
    budget # <<>> =>
        LET v == budget[1].violations
        IN  /\ \A f \in MeasuredFiles :
                  Cardinality({ k \in 1..Len(v) : v[k].file = f })
                      = IF sizeOf(f) > limitOf(f) THEN 1 ELSE 0
            /\ \A k \in 1..Len(v) :
                  /\ v[k].file \in MeasuredFiles \cup { << "TOTAL", 0 >> }
                  /\ v[k].type = v[k].file[1]
                  /\ v[k].file \in MeasuredFiles =>
                        (v[k].size = sizeOf(v[k].file) /\ v[k].budget = limitOf(v[k].file))
            /\ Cardinality({ k \in 1..Len(v) : v[k].type = "TOTAL" })
                   = IF sumOf(MeasuredFiles) > 500 * 1024 THEN 1 ELSE 0
            /\ budget[1].passed <=> (Len(v) = 0)
            /\ dist = ScenarioDist =>
                  /\ ~budget[1].passed
                  /\ Len(v) = 1
                  /\ v[1].type = "TOTAL"
                  /\ v[1].size - v[1].budget = 20 * 1024

C14_Witness ==
    /\ dist = ScenarioDist
    /\ budget # <<>>
    /\ ~budget[1].passed
    /\ Len(budget[1].violations) = 1
    /\ budget[1].violations[1].size = 520 * 1024

(***************************************************************************)
(* Claims about the results of the stages and the build report.            *)
(***************************************************************************)
\* C19: every stage returns a result with exactly one arm, value when ok and
\* error when not, whatever its I/O did; build() reaches its catch block only
\* by throwing the error of a failed result.
C19_StageResults ==
    /\ \A i \in 1..Len(returned) :
          returned[i].arms = IF returned[i].ok THEN {"value"} ELSE {"error"}
    /\ pc = "catch" => (returned # <<>> /\ ~returned[Len(returned)].ok)

C19_Witness ==
    /\ pc = "exited"
    /\ Len(returned) = 7
    /\ \A i \in 1..6 : returned[i].ok /\ returned[i].arms = {"value"}
    /\ ~returned[7].ok
    /\ returned[7].arms = {"error"}

\* The artifact records the report holds for a step.
reportedFiles(key) ==
    IF key \in DOMAIN report[1].stepFiles THEN report[1].stepFiles[key] ELSE <<>>

\* C20 (as claimed): the report written by a run holds the record of every
\* file the CSS, script and HTML stages produced, the violation list, the
\* duration and passed = (no violation).
C20_ReportAggregatesArtifacts ==
    report # <<>> =>
        /\ reportedFiles("css") = dist.cssOut
        /\ reportedFiles("js") = dist.jsOut
        /\ reportedFiles("html") = dist.htmlOut
        /\ report[1].summary.totalFiles
               = Len(dist.cssOut) + Len(dist.jsOut) + Len(dist.htmlOut)
        /\ report[1].performanceBudget = budget
        /\ report[1].performanceBudget[1].passed
               <=> (Len(report[1].performanceBudget[1].violations) = 0)
        /\ report[1].buildDuration # <<>>

(***************************************************************************)
(* Claims about optimize-images.js.                                        *)
(***************************************************************************)
\* The indices of the examined catalog entries whose outcome is one of `outcomes`.
examinedAs(outcomes) ==
    { i \in 1..Len(examined) : examined[i].outcome \in outcomes }

\* C15: for a catalog entry whose file is in the source directory before the
\* run, no download is started, the file stays as it was, and the entry is
\* counted as skipped once the loop has looked at it.
C15_ExistingNotFetched ==
    /\ \A n \in Range(Catalog) :
          source0[n] # "absent" => (n \notin fetches /\ source[n] = source0[n])
    /\ \A i \in 1..Len(examined) :
          source0[examined[i].name] # "absent" <=> examined[i].outcome = "skipped"
    /\ acquired.skipped = Cardinality(examinedAs({"skipped"}))

C15_Witness ==
    /\ Len(examined) = Len(Catalog)
    /\ source0[Catalog[1]] = "original"
    /\ source[Catalog[1]] = "original"
    /\ examined[1].outcome = "skipped"
    /\ examined[2].outcome = "ok"
    /\ acquired.skipped = 1

\* The outcomes of a download that are fetch failures: a response other than
\* 200, or a transport error before or while the body arrives.
FetchFailures == {"status", "requestError", "aborted"}

\* C16 (as claimed): every fetch failure is counted as failed and the loop goes
\* on to the later entries; when the loop is over downloaded + skipped + failed
\* is the number of catalog entries.
C16_FetchFailureCounted ==
    /\ acquired.failed >= Cardinality(examinedAs(FetchFailures))
    /\ \A i \in examinedAs(FetchFailures) :
           i < Len(Catalog) => (Len(examined) > i \/ imgPc = "acquire")
    /\ imgPc \in {"optimize", "report"} =>
           /\ Len(examined) = Len(Catalog)
           /\ acquired.downloaded + acquired.skipped + acquired.failed = Len(Catalog)

\* The number of source image files when the optimization is called.
SourceImageFiles == { n \in SourceNames : source[n] # "absent" /\ isImageFile(n) }

\* C17 (as claimed): without sharp the optimization does not fail: once the
\* output directory is there and the source directory listed, it returns
\* {processed: N, failed: 0}, N the number of source image files, and every
\* source image file is in the output directory with its content unchanged.
C17_FallbackCopiesAll ==
    (~sharp /\ optimization # <<>> /\ optimization[1].cause \notin {"mkdir", "readdir"}) =>
        /\ optimization[1].status = "returned"
        /\ optimization[1].processed = Cardinality(SourceImageFiles)
        /\ optimization[1].failed = 0
        /\ \A n \in SourceImageFiles : output[n] = source[n]

\* C18: with sharp, a source image that cannot be processed is counted as
\* failed, the others are still processed and the optimization returns;
\* processed + failed is the number of source image files (0 and 0 for none),
\* and the optimization throws only when the output directory cannot be made
\* or the source directory not listed.
C18_PerFileFailures ==
    (sharp /\ optimization # <<>>) =>
        /\ optimization[1].status = "threw" =>
               optimization[1].cause \in {"mkdir", "readdir"}
        /\ optimization[1].status = "returned" =>
               /\ optimization[1].processed + optimization[1].failed
                      = Cardinality(SourceImageFiles)
               /\ optimization[1].failed
                      = Cardinality({ n \in SourceImageFiles : source[n] \in Corrupt })
               /\ \A n \in SourceImageFiles :
                      source[n] \notin Corrupt => output[n] = "derived"
               /\ imgPc = "report" \/ imgExit # <<>>

C18_Witness ==
    /\ sharp
    /\ optimization # <<>>
    /\ optimization[1].status = "returned"
    /\ optimization[1].failed = 1
    /\ optimization[1].processed = 2
    /\ source["local.png"] = "unreadable"
    /\ output[Catalog[MaxCatalog]] = "derived"
    /\ imgExit = << 0 >>

(***************************************************************************)
(* Claims about extractCriticalCSS, stated on the kinds of the lines the   *)
(* stylesheet was put together from.                                       *)
(***************************************************************************)
\* The braces a line of each kind opens and closes.
opened(name) == IF name \in {"layer", "nav", "navOne", "plain"} THEN 1 ELSE 0

closed(name) == IF name \in {"navOne", "close"} THEN 1 ELSE 0

\* The brace depth after line j, counted from the start of line m.
RECURSIVE depthFrom(_, _)
depthFrom(m, j) ==
    IF j < m THEN 0
    ELSE depthFrom(m, j - 1) + opened(cssLines[j]) - closed(cssLines[j])

\* The last line of the block that line m opens: the first line from m on
\* after which the depth counted from m is back to zero (0 if never).
blockEnd(m) ==
    LET ends == { j \in m..Len(cssLines) : depthFrom(m, j) = 0 }
    IN  IF ends = {} THEN 0 ELSE CHOOSE j \in ends : \A k \in ends : j <= k

\* Line i lies in the block opened by line m.
inBlock(m, i) ==
    /\ m <= i
    /\ \A j \in m..(i - 1) : depthFrom(m, j) > 0

\* Line i belongs to a critical block: one opened by a marker line or by a
\* line whose selector is on the allow-list.
inCriticalBlock(i) ==
    \E m \in 1..i : cssLines[m] \in {"layer", "nav", "navOne"} /\ inBlock(m, i)

emitted == { extracted[1].lines[n] : n \in 1..Len(extracted[1].lines) }

\* Every brace of the stylesheet has its partner.
balanced ==
    /\ \A j \in 1..Len(cssLines) : depthFrom(1, j) >= 0
    /\ depthFrom(1, Len(cssLines)) = 0

\* C21: every line of a closed '@layer critical' block, from the marker line
\* through the line of its matching closing brace, is emitted.
C21_LayerBlockEmitted ==
    (extracted # <<>> /\ balanced) =>
        \A m \in 1..Len(cssLines) :
            (cssLines[m] = "layer" /\ blockEnd(m) # 0) => m..blockEnd(m) \subseteq emitted

\* C22: only lines of a critical block are emitted, in source order.
C22_OnlyCriticalEmitted ==
    (extracted # <<>> /\ balanced) =>
        /\ \A i \in emitted : inCriticalBlock(i)
        /\ \A n \in 1..(Len(extracted[1].lines) - 1) :
              extracted[1].lines[n] < extracted[1].lines[n + 1]

(***************************************************************************)
(* Claims about ensureDirectory.                                           *)
(***************************************************************************)
\* C23: whatever the interleaving of the callers' access checks and mkdirs,
\* no call throws, and once a call has completed the directory exists.
C23_ConcurrentEnsure ==
    \A p \in Callers :
        /\ callerPc[p] # "threw"
        /\ callerDone[p] > 0 => dirExists

\* Two callers found the directory missing before either made it, and both
\* calls completed.
C23_Witness ==
    /\ callerCalls[1] = 1 /\ callerCalls[2] = 1
    /\ callerDone[1] = 1
    /\ callerPc[2] = "mkdir"
    /\ dirExists

(***************************************************************************)
(* Claims about successive runs of optimize-images.js.                     *)
(***************************************************************************)
\* images/source as it was before the first run.
firstSource == IF imgFirst = <<>> THEN source0 ELSE imgFirst[1]

\* C24 (as claimed): an entry is skipped only when its image was there before
\* the first run or was downloaded by an earlier run; an entry whose fetch
\* failed (a status other than 200, a request error) in the run before has no
\* file in the source directory and is not skipped.
C24_FailedFetchRetried ==
    /\ \A i \in 1..Len(examined) :
          examined[i].outcome = "skipped" =>
              /\ examined[i].name \notin failedLast
              /\ \/ firstSource[examined[i].name] # "absent"
                 \/ examined[i].name \in downloadedEver
    /\ \A n \in failedLast : imgPc = "start" => source[n] = "absent"

(***************************************************************************)
(* Claims about the report and the critical CSS of a build() run.          *)
(***************************************************************************)
\* C25 (as claimed): when a report was written and the process has exited,
\* summary.success of the report is true iff the exit code is 0.
C25_ReportSuccessIsExitCode ==
    (report # <<>> /\ exitCode # <<>>) =>
        (report[1].summary.success <=> exitCode[1] = 0)

\* C26: critical CSS the HTML stage inlined was written by the CSS stage of
\* the same run, never left over from an earlier run.
C26_InlinedCriticalIsFresh ==
    \A i \in 1..Len(dist.htmlOut) :
        /\ dist.htmlOut[i].inlined # "stale"
        /\ dist.htmlOut[i].inlined = "fresh" => (cssRun # <<>> /\ cssRun[1].critical)

\* The CSS stage of the run wrote no critical.css and the HTML stage wrote
\* index.html with nothing inlined.
C26_Witness ==
    /\ cssRun # <<>>
    /\ ~cssRun[1].critical
    /\ Len(dist.htmlOut) = 1
    /\ dist.htmlOut[1].inlined = "absent"
    /\ "html" \in steps


C28_OwnRetryBudget ==
    \A i \in 1..Len(submissions) :
        /\ submissions[i].requests <= MAX_RETRIES + 1
        /\ (submissions[i].pc = "done" /\ submissions[i].allNetwork)
           => submissions[i].requests = MAX_RETRIES + 1


(***************************************************************************)
(* Claims about lazy loading and about initializeApp.                      *)
(***************************************************************************)
\* C29 (as claimed): for any sequence of triggers on an image at most one
\* load is in progress; a load makes at most retryAttempts attempts and no
\* attempt after a successful one; and when a load has ended and none is in
\* progress the image has the loaded class or the error class, never both,
\* and its loading flag is cleared.
C29_OneLoadOneOutcome ==
    /\ Cardinality(activeLoads) <= 1
    /\ \A i \in 1..Len(loads) : loads[i].attempt <= retryAttempts
    /\ (loads # <<>> /\ activeLoads = {}) =>
          /\ ~imgLoading
          /\ "loaded" \in imgClasses \/ "error" \in imgClasses
          /\ ~("loaded" \in imgClasses /\ "error" \in imgClasses)

\* C30 (as claimed): between two cleanups at most one call of initializeApp
\* initializes the features; a call made while an earlier call awaits, or
\* after it completed, initializes nothing.
C30_InitializedOnce ==
    initRuns <= 1

====
